---- MODULE Spec2Model ----
(***************************************************************************)
(* Model of the collection functions of elastic/mito (lib collections):    *)
(* collate, drop, drop_empty, flatten, with, with_update, with_replace and *)
(* the as macro over CEL values, and of rate_limit (lib limit).            *)
(*                                                                         *)
(* A CEL value is a record with one field, whose name is its type:         *)
(*   [int |-> n]     an int                                                *)
(*   [str |-> s]     a string                                              *)
(*   [l |-> <<..>>]  a list of values                                      *)
(*   [m |-> f]       a map, f a function from string keys to values        *)
(*   [err |-> <<>>]  an error value, a types.Err                           *)
(* A string (a map key, a path) is a sequence of one-character strings, so *)
(* that the byte-level scanning of pathSepIndex is modelled as written.    *)
(***************************************************************************)
EXTENDS Integers, Sequences, FiniteSets, TLC

VARIABLES root, fields, op, result, pc

vars == <<root, fields, op, result, pc>>

----------------------------------------------------------------------------
(* Bounds of the explored inputs.                                          *)

\* Largest number of nodes (scalars, lists, maps) of a receiver of drop/collate.
MaxNodes == 3

\* Largest number of dot-separated raw segments of a path.
MaxSegs == 3

\* Largest number of nodes of a receiver when a list of paths is given.
MaxNodesMulti == 3

\* Largest number of paths in a list of paths.
MaxPaths == 2

\* Largest number of nodes of a receiver of drop_empty.
MaxNodesEmpty == 4

\* Largest number of nodes of a receiver of flatten.
MaxNodesFlatten == 5

\* Largest number of keys of the maps given to with, with_update, with_replace.
MaxKeysWith == 3

\* Largest number of nodes of the target of the as macro.
MaxNodesAs == 3

\* Largest burst argument of rate_limit; the smallest is -1.
MaxBurstArg == 2

\* Latest reading of the clock, in seconds since the epoch.
MaxNow == 2

\* Largest number of goroutines receiving from the channel.
MaxReceivers == 2

\* Largest number of reads of now and calls of now() in an expression.
MaxTerms == 3

\* Latest reading of the clock during an evaluation.
MaxClock == 3

----------------------------------------------------------------------------
(* Values.                                                                 *)

Sc(n) == [int |-> n]
Str(s) == [str |-> s]
Li(s) == [l |-> s]
Ma(f) == [m |-> f]
Err == [err |-> <<>>]
Null == [null |-> <<>>]

IsList(x) == DOMAIN x = {"l"}
IsMap(x) == DOMAIN x = {"m"}
IsStr(x) == DOMAIN x = {"str"}
IsErr(x) == DOMAIN x = {"err"}
IsContainer(x) == IsList(x) \/ IsMap(x)

\* Strings used as map keys: a, a.a and a\.a (a key that itself holds a
\* backslash followed by a dot).
KeyA == <<"a">>
KeyAdotA == <<"a", ".", "a">>
KeyAescA == <<"a", "\\", ".", "a">>
PathKeys == <<KeyA, KeyAdotA, KeyAescA>>
PlainKeys == <<KeyA, KeyAdotA>>

\* The scalars: the int zero and the empty string.
Scalars == {Sc(0), Str(<<>>)}

\* The maps with keys among rest (a sequence of keys) whose values' node
\* counts add up to n, the values of k nodes being vals[k].
RECURSIVE MapsOfTotal(_, _, _)
MapsOfTotal(vals, rest, n) ==
    IF Len(rest) = 0 THEN (IF n = 0 THEN {<<>>} ELSE {})
    ELSE MapsOfTotal(vals, Tail(rest), n)
         \cup UNION {{(Head(rest) :> x) @@ m :
                        x \in vals[k],
                        m \in MapsOfTotal(vals, Tail(rest), n - k)} : k \in 1..n}

\* The sequences of values whose node counts add up to n, given the values
\* vals[k] of k nodes and the sequences seqs[j + 1] of j nodes in all, j < n.
SeqsOfTotal(vals, seqs, n) ==
    IF n = 0 THEN {<<>>}
    ELSE UNION {{<<x>> \o s : x \in vals[k], s \in seqs[n - k + 1]} : k \in 1..n}

\* The set S, listed once so that it is not rebuilt at each use.
Enumerated(S) == {x \in S : TRUE}

\* ValueTable(ks, n).vals[k] is the set of the values with exactly k nodes
\* (scalars, lists and maps) with keys in ks, for k in 1..n.
RECURSIVE ValueTable(_, _)
ValueTable(ks, n) ==
    IF n = 0 THEN [vals |-> <<>>, seqs |-> <<>>]
    ELSE LET T == ValueTable(ks, n - 1)
             ss == Enumerated(SeqsOfTotal(T.vals, T.seqs, n - 1))
             new == Enumerated((IF n = 1 THEN Scalars ELSE {})
                               \cup {Li(s) : s \in ss}
                               \cup {Ma(m) : m \in MapsOfTotal(T.vals, ks, n - 1)})
         IN  [vals |-> Append(T.vals, new), seqs |-> Append(T.seqs, ss)]

ValuesUpTo(ks, n) == LET T == ValueTable(ks, n) IN Enumerated(UNION {T.vals[k] : k \in 1..n})

\* Receivers: the declared overloads take a list or a map.
Roots(ks, n) == {x \in ValuesUpTo(ks, n) : IsContainer(x)}

----------------------------------------------------------------------------
(* Paths: raw strings made of raw segments joined by unescaped dots.       *)

SegA == <<"a">>
SegAescA == <<"a", "\\", ".", "a">>
SegEmpty == <<>>
RawSegs == {SegA, SegAescA, SegEmpty}

RECURSIVE Join(_)
Join(segs) ==
    IF Len(segs) = 1 THEN segs[1]
    ELSE segs[1] \o <<".">> \o Join(Tail(segs))

RECURSIVE SegSeqs(_)
SegSeqs(n) ==
    IF n = 1 THEN {<<s>> : s \in RawSegs}
    ELSE {<<s>> \o r : s \in RawSegs, r \in SegSeqs(n - 1)}

PathStrings(n) == UNION {{Join(ss) : ss \in SegSeqs(k)} : k \in 1..n}

RECURSIVE ListsOf(_, _)
ListsOf(S, n) ==
    IF n = 0 THEN {<<>>}
    ELSE ListsOf(S, n - 1) \cup {<<x>> \o l : x \in S, l \in {m \in ListsOf(S, n - 1) : Len(m) = n - 1}}

----------------------------------------------------------------------------
(* strings.IndexByte, strings.ReplaceAll and pathSepIndex.                 *)

\* strings.IndexByte(s, c): 0-based offset of the first c in s, or -1.
IndexByte(s, c) ==
    IF \E i \in 1..Len(s) : s[i] = c
    THEN (CHOOSE i \in 1..Len(s) : s[i] = c /\ \A j \in 1..(i - 1) : s[j] # c) - 1
    ELSE -1

\* strings.ReplaceAll(s, `\.`, "."): left to right, non-overlapping.
RECURSIVE ReplaceAll(_)
ReplaceAll(s) ==
    IF Len(s) = 0 THEN s
    ELSE IF Len(s) >= 2 /\ s[1] = "\\" /\ s[2] = "."
         THEN <<".">> \o ReplaceAll(SubSeq(s, 3, Len(s)))
         ELSE <<s[1]>> \o ReplaceAll(Tail(s))

\* The loop of pathSepIndex; off is the 0-based offset of the Go code, so the
\* byte s[off-1] of the code is s[off] here.
RECURSIVE pathSepLoop(_, _, _)
pathSepLoop(s, off, escaped) ==
    LET idx == IndexByte(SubSeq(s, off + 1, Len(s)), ".")
    IN  IF idx = -1 THEN [off |-> -1, escaped |-> escaped]
        ELSE LET o == off + idx
             IN  IF idx = 0 \/ s[o] # "\\"
                 THEN [off |-> o, escaped |-> escaped]
                 ELSE pathSepLoop(s, o + 1, TRUE)

\* pathSepIndex without the check for a preceding backslash.
pathSepIndexNoEscape(s) == [off |-> IndexByte(s, "."), escaped |-> FALSE]

pathSepIndex(s) == pathSepLoop(s, 0, FALSE)

\* head := path[:dotIdx], with `\.` restored when escaped.
PathHead(path, r) ==
    IF r.escaped THEN ReplaceAll(SubSeq(path, 1, r.off)) ELSE SubSeq(path, 1, r.off)

\* tail := path[dotIdx+1:]
PathTail(path, r) == SubSeq(path, r.off + 2, Len(path))

\* The separator check without the case of a trailing dot.
BadSepLeadingOnly(path, r) == r.off = 0

\* case dotIdx == 0, dotIdx == len(path)-1
BadSep(path, r) == r.off = 0 \/ r.off = Len(path) - 1

----------------------------------------------------------------------------
(* drop.                                                                   *)

\* hasFieldPath returns "true" or "false", or "panic" when it panics with a
\* *types.Err. A list is scanned in order and the scan stops at the first
\* element that has the path.
RECURSIVE hasFieldPath(_, _)
RECURSIVE hasFieldPathFrom(_, _, _)

hasFieldPathFrom(l, i, path) ==
    IF i > Len(l) THEN "false"
    ELSE LET h == hasFieldPath(l[i], path)
         IN  IF h = "false" THEN hasFieldPathFrom(l, i + 1, path) ELSE h

hasFieldPath(arg, path) ==
    IF IsList(arg) THEN hasFieldPathFrom(arg.l, 1, path)
    ELSE IF IsMap(arg) THEN
        LET r == pathSepIndex(path)
        IN  IF BadSep(path, r) THEN "panic"
            ELSE IF r.off < 0
                 THEN (IF path \in DOMAIN arg.m THEN "true" ELSE "false")
                 ELSE LET head == PathHead(path, r)
                      IN  IF head \in DOMAIN arg.m
                          THEN hasFieldPath(arg.m[head], PathTail(path, r))
                          ELSE "false"
    ELSE "false"

\* dropFieldPath without the look for the path before anything is rebuilt.
RECURSIVE dropFieldPathUnchecked(_, _)
dropFieldPathUnchecked(arg, path) ==
    IF IsList(arg)
    THEN Li([i \in 1..Len(arg.l) |-> dropFieldPathUnchecked(arg.l[i], path)])
    ELSE IF IsMap(arg) THEN
        LET r == pathSepIndex(path)
        IN  IF BadSep(path, r) THEN Err
            ELSE IF r.off < 0
                 THEN Ma([k \in DOMAIN arg.m \ {path} |-> arg.m[k]])
                 ELSE LET head == PathHead(path, r)
                      IN  Ma([k \in DOMAIN arg.m |->
                                IF k = head
                                THEN dropFieldPathUnchecked(arg.m[k], PathTail(path, r))
                                ELSE arg.m[k]])
    ELSE arg

RECURSIVE dropFieldPath(_, _)
dropFieldPath(arg, path) ==
    LET has == hasFieldPath(arg, path)
    IN  IF has = "panic" THEN Err
        ELSE IF has = "false" THEN arg
        ELSE IF IsList(arg)
             THEN Li([i \in 1..Len(arg.l) |-> dropFieldPath(arg.l[i], path)])
        ELSE IF IsMap(arg) THEN
            LET r == pathSepIndex(path)
            IN  IF BadSep(path, r) THEN Err
                ELSE IF r.off < 0
                     THEN Ma([k \in DOMAIN arg.m \ {path} |-> arg.m[k]])
                     ELSE LET head == PathHead(path, r)
                          IN  Ma([k \in DOMAIN arg.m |->
                                    IF k = head
                                    THEN dropFieldPath(arg.m[k], PathTail(path, r))
                                    ELSE arg.m[k]])
        ELSE arg

\* The loop of dropFields with every path applied to the receiver itself,
\* the result of the last path being returned.
dropFieldsFromReceiver(obj, l, i) ==
    IF i > Len(l) THEN obj ELSE dropFieldPath(obj, l[Len(l)].str)

RECURSIVE dropFieldsFrom(_, _, _)
dropFieldsFrom(obj, l, i) ==
    IF i > Len(l) THEN obj
    ELSE dropFieldsFrom(dropFieldPath(obj, l[i].str), l, i + 1)

dropFields(obj, f) ==
    IF IsStr(f) THEN dropFieldPath(obj, f.str)
    ELSE IF IsList(f) THEN dropFieldsFrom(obj, f.l, 1)
    ELSE Err

----------------------------------------------------------------------------
(* collate.                                                                *)

\* collateFieldPath returns [panic |-> p, vals |-> c]: it either panics with a
\* *types.Err (p) or returns the slice c.
Collation(c) == [panic |-> FALSE, vals |-> c]
CollatePanic == [panic |-> TRUE, vals |-> <<>>]

RECURSIVE collateFieldPath(_, _)
RECURSIVE collateFieldPathFrom(_, _, _, _)

collateFieldPathFrom(l, i, path, collation) ==
    IF i > Len(l) THEN Collation(collation)
    ELSE LET c == collateFieldPath(l[i], path)
         IN  IF c.panic THEN CollatePanic
             ELSE collateFieldPathFrom(l, i + 1, path, collation \o c.vals)

collateFieldPath(arg, path) ==
    IF IsList(arg) THEN collateFieldPathFrom(arg.l, 1, path, <<>>)
    ELSE IF IsMap(arg) THEN
        LET r == pathSepIndex(path)
        IN  IF BadSep(path, r) THEN CollatePanic
            ELSE IF r.off < 0
                 THEN IF path \in DOMAIN arg.m
                      THEN (IF IsList(arg.m[path])
                            THEN Collation(arg.m[path].l)
                            ELSE Collation(<<arg.m[path]>>))
                      ELSE Collation(<<>>)
                 ELSE LET head == PathHead(path, r)
                      IN  IF head \in DOMAIN arg.m
                          THEN collateFieldPath(arg.m[head], PathTail(path, r))
                          ELSE Collation(<<>>)
    ELSE IF path = <<>> THEN Collation(<<arg>>) ELSE Collation(<<>>)

\* The loop of collateFields with each collation put before the elements
\* collected so far.
RECURSIVE collateFieldsFromPrepending(_, _, _, _)
collateFieldsFromPrepending(arg, l, i, elems) ==
    IF i > Len(l) THEN Li(elems)
    ELSE IF ~IsStr(l[i]) THEN Err
    ELSE LET c == collateFieldPath(arg, l[i].str)
         IN  IF c.panic THEN Err
             ELSE collateFieldsFromPrepending(arg, l, i + 1, c.vals \o elems)

RECURSIVE collateFieldsFrom(_, _, _, _)
collateFieldsFrom(arg, l, i, elems) ==
    IF i > Len(l) THEN Li(elems)
    ELSE IF ~IsStr(l[i]) THEN Err
    ELSE LET c == collateFieldPath(arg, l[i].str)
         IN  IF c.panic THEN Err
             ELSE collateFieldsFrom(arg, l, i + 1, elems \o c.vals)

collateFields(arg, f) ==
    IF IsStr(f)
    THEN LET c == collateFieldPath(arg, f.str)
         IN  IF c.panic THEN Err ELSE Li(c.vals)
    ELSE IF IsList(f) THEN collateFieldsFrom(arg, f.l, 1, <<>>)
    ELSE Err

----------------------------------------------------------------------------
(* drop_empty.                                                             *)

\* Size() of a list or a map.
Size(x) == IF IsList(x) THEN Len(x.l) ELSE Cardinality(DOMAIN x.m)

\* The elements a list or a map iterates over.
Elems(x) == IF IsList(x) THEN {x.l[i] : i \in DOMAIN x.l} ELSE {x.m[k] : k \in DOMAIN x.m}

RECURSIVE hasEmpty(_)
hasEmpty(val) ==
    \E elem \in Elems(val) :
        IsContainer(elem) /\ (Size(elem) = 0 \/ hasEmpty(elem))

RECURSIVE dropEmpty(_)
RECURSIVE dropEmptyFrom(_, _, _)

\* dropEmptyKeeps without the check of the size of the pruned element.
dropEmptyKeepsUnpruned(elem) ==
    IF IsContainer(elem) THEN Size(elem) # 0 ELSE TRUE

\* dropEmptyKeeps taking the empty string for an empty value.
dropEmptyKeepsNonZero(elem) ==
    IF IsContainer(elem)
    THEN Size(elem) # 0
         /\ LET res == dropEmpty(elem)
            IN  IF IsContainer(res) THEN Size(res) # 0 ELSE TRUE
    ELSE elem # Str(<<>>)

\* Whether dropEmpty keeps the element elem of a list or a map.
dropEmptyKeeps(elem) ==
    IF IsContainer(elem)
    THEN Size(elem) # 0
         /\ LET res == dropEmpty(elem)
            IN  IF IsContainer(res) THEN Size(res) # 0 ELSE TRUE
    ELSE TRUE

\* The value dropEmpty stores for a kept element.
dropEmptyElem(elem) == IF IsContainer(elem) THEN dropEmpty(elem) ELSE elem

\* The loop over a list: new is the slice built so far.
dropEmptyFrom(l, i, new) ==
    IF i > Len(l) THEN new
    ELSE dropEmptyFrom(l, i + 1,
            IF dropEmptyKeeps(l[i]) THEN Append(new, dropEmptyElem(l[i])) ELSE new)

dropEmpty(val) ==
    IF ~IsContainer(val) THEN val
    ELSE IF ~hasEmpty(val) THEN val
    ELSE IF IsList(val) THEN Li(dropEmptyFrom(val.l, 1, <<>>))
    ELSE Ma([k \in {j \in DOMAIN val.m : dropEmptyKeeps(val.m[j])} |->
                dropEmptyElem(val.m[k])])

----------------------------------------------------------------------------
(* flatten.                                                                *)

\* flattenParts(dst, val) returns the contents of dst after the call. Add of a
\* list to the mutable list dst appends the elements of that list.
RECURSIVE flattenParts(_, _)
RECURSIVE flattenPartsFrom(_, _, _)

flattenPartsFrom(dst, l, i) ==
    IF i > Len(l) THEN dst
    ELSE flattenPartsFrom(flattenParts(dst, l[i]), l, i + 1)

\* flattenParts adding only the non-list children of a list that holds one.
flattenPartsNonListsOnly(dst, val) ==
    IF \E i \in 1..Len(val.l) : ~IsList(val.l[i])
    THEN dst \o SelectSeq(val.l, LAMBDA e : ~IsList(e))
    ELSE flattenPartsFrom(dst, val.l, 1)

\* flattenParts going one level down only: the elements of the children of a
\* list of lists are added as they are.
flattenPartsOneLevel(dst, val) ==
    LET RECURSIVE Children(_)
        Children(i) == IF i > Len(val.l) THEN <<>> ELSE val.l[i].l \o Children(i + 1)
    IN  IF \E i \in 1..Len(val.l) : ~IsList(val.l[i])
        THEN dst \o val.l
        ELSE dst \o Children(1)

flattenParts(dst, val) ==
    IF \E i \in 1..Len(val.l) : ~IsList(val.l[i])
    THEN dst \o val.l
    ELSE flattenPartsFrom(dst, val.l, 1)

flatten(arg) ==
    IF ~IsList(arg) THEN Err
    ELSE Li(flattenParts(<<>>, arg))

----------------------------------------------------------------------------
(* with, with_update and with_replace.                                     *)

\* Go maps are references: the cells dst and src hold the native maps of the
\* two arguments, the cell new holds the map made by with. A heap gives the
\* value of each cell; Store is the assignment m[k] = v on the map of cell c.
Heap(dst, src) == [dst |-> dst, src |-> src, new |-> Null]

Store(heap, c, k, v) == [heap EXCEPT ![c] = Ma((k :> v) @@ heap[c].m)]

\* for k, v := range m { new[k] = v } of with.
RECURSIVE withCopy(_, _)
withCopy(heap, todo) ==
    IF todo = {} THEN heap
    ELSE LET k == CHOOSE j \in todo : TRUE
         IN  withCopy(Store(heap, "new", k, heap.dst.m[k]), todo \ {k})

\* with writing into the native map of dst in place of a fresh map.
withNoCopy(dst, src) ==
    IF ~IsMap(dst) THEN [res |-> "", other |-> "", maybe |-> Err, heap |-> Heap(dst, src)]
    ELSE IF ~IsMap(src)
         THEN [res |-> "", other |-> "", maybe |-> Err, heap |-> Heap(dst, src)]
    ELSE [res |-> "dst", other |-> "src", maybe |-> Null, heap |-> Heap(dst, src)]

\* with returns the cells of res and other, and maybe, which is Null for the
\* nil of the code.
with(dst, src) ==
    IF ~IsMap(dst) THEN [res |-> "", other |-> "", maybe |-> Err, heap |-> Heap(dst, src)]
    ELSE IF ~IsMap(src)
         THEN [res |-> "", other |-> "", maybe |-> IF IsErr(src) THEN src ELSE Err,
               heap |-> Heap(dst, src)]
    ELSE [res |-> "new", other |-> "src", maybe |-> Null,
          heap |-> withCopy([Heap(dst, src) EXCEPT !.new = Ma(<<>>)], DOMAIN dst.m)]

\* What a call leaves: the value returned, the cell it wraps and the heap.
Returned(val, cell, heap) == [val |-> val, cell |-> cell, heap |-> heap]

RECURSIVE withAllRange(_, _, _, _)
withAllRange(heap, new, other, todo) ==
    IF todo = {} THEN heap
    ELSE LET k == CHOOSE j \in todo : TRUE
         IN  withAllRange(Store(heap, new, k, heap[other].m[k]), new, other, todo \ {k})

RECURSIVE withUpdateRange(_, _, _, _)
withUpdateRange(heap, new, other, todo) ==
    IF todo = {} THEN heap
    ELSE LET k == CHOOSE j \in todo : TRUE
         IN  IF k \in DOMAIN heap[new].m
             THEN withUpdateRange(heap, new, other, todo \ {k})
             ELSE withUpdateRange(Store(heap, new, k, heap[other].m[k]), new, other,
                                  todo \ {k})

RECURSIVE withReplaceRange(_, _, _, _)
withReplaceRange(heap, new, other, todo) ==
    IF todo = {} THEN heap
    ELSE LET k == CHOOSE j \in todo : TRUE
         IN  IF k \notin DOMAIN heap[new].m
             THEN withReplaceRange(heap, new, other, todo \ {k})
             ELSE withReplaceRange(Store(heap, new, k, heap[other].m[k]), new, other,
                                   todo \ {k})

\* The three functions with the loop of another one.
withAllSkipping(dst, src) ==
    LET w == with(dst, src)
    IN  IF w.maybe # Null THEN Returned(w.maybe, "", w.heap)
        ELSE LET h == withUpdateRange(w.heap, w.res, w.other, DOMAIN w.heap[w.other].m)
             IN  Returned(h[w.res], w.res, h)

withUpdateOverwriting(dst, src) ==
    LET w == with(dst, src)
    IN  IF w.maybe # Null THEN Returned(w.maybe, "", w.heap)
        ELSE LET h == withAllRange(w.heap, w.res, w.other, DOMAIN w.heap[w.other].m)
             IN  Returned(h[w.res], w.res, h)

withReplaceAdding(dst, src) ==
    LET w == with(dst, src)
    IN  IF w.maybe # Null THEN Returned(w.maybe, "", w.heap)
        ELSE LET h == withAllRange(w.heap, w.res, w.other, DOMAIN w.heap[w.other].m)
             IN  Returned(h[w.res], w.res, h)

withAllReplacing(dst, src) ==
    LET w == with(dst, src)
    IN  IF w.maybe # Null THEN Returned(w.maybe, "", w.heap)
        ELSE LET h == withReplaceRange(w.heap, w.res, w.other, DOMAIN w.heap[w.other].m)
             IN  Returned(h[w.res], w.res, h)

withAll(dst, src) ==
    LET w == with(dst, src)
    IN  IF w.maybe # Null THEN Returned(w.maybe, "", w.heap)
        ELSE LET h == withAllRange(w.heap, w.res, w.other, DOMAIN w.heap[w.other].m)
             IN  Returned(h[w.res], w.res, h)

withUpdate(dst, src) ==
    LET w == with(dst, src)
    IN  IF w.maybe # Null THEN Returned(w.maybe, "", w.heap)
        ELSE LET h == withUpdateRange(w.heap, w.res, w.other, DOMAIN w.heap[w.other].m)
             IN  Returned(h[w.res], w.res, h)

withReplace(dst, src) ==
    LET w == with(dst, src)
    IN  IF w.maybe # Null THEN Returned(w.maybe, "", w.heap)
        ELSE LET h == withReplaceRange(w.heap, w.res, w.other, DOMAIN w.heap[w.other].m)
             IN  Returned(h[w.res], w.res, h)

----------------------------------------------------------------------------
(* The as macro.                                                           *)

\* Expressions, as the expression helper builds them. An expression is a
\* record with one field, whose name is its kind.
Ident(name) == [ident |-> name]
Literal(v) == [lit |-> v]
LiteralBool(b) == [bool |-> b]
LiteralInt(n) == [lit |-> Sc(n)]
NewList(elems) == [list |-> elems]
GlobalCall(fn, args) == [call |-> [fn |-> fn, args |-> args]]
Fold(iterVar, iterRange, accuVar, accuInit, condition, step, res) ==
    [fold |-> [iterVar |-> iterVar, iterRange |-> iterRange, accuVar |-> accuVar,
               accuInit |-> accuInit, condition |-> condition, step |-> step,
               result |-> res]]

IsIdentExpr(e) == DOMAIN e = {"ident"}

AccumulatorName == "__result__"
OperatorsAdd == "_+_"
OperatorsIndex == "_[_]"

\* What the macro expander gets back: an expression or an error.
Expanded(e) == [expr |-> e]
MacroError(msg) == [error |-> msg]

\* makeAs folding over target itself in place of the list [target].
makeAsOverTarget(target, args) ==
    IF ~IsIdentExpr(args[1]) THEN MacroError("argument is not an identifier")
    ELSE LET label == args[1].ident
             fn == args[2]
             accuExpr == Ident(AccumulatorName)
             step == GlobalCall(OperatorsAdd, <<accuExpr, NewList(<<fn>>)>>)
             fold == Fold(label, target, AccumulatorName, NewList(<<>>),
                          LiteralBool(TRUE), step, accuExpr)
         IN  Expanded(GlobalCall(OperatorsIndex, <<fold, LiteralInt(0)>>))

makeAs(target, args) ==
    IF ~IsIdentExpr(args[1]) THEN MacroError("argument is not an identifier")
    ELSE LET label == args[1].ident
             fn == args[2]
             accuExpr == Ident(AccumulatorName)
             step == GlobalCall(OperatorsAdd, <<accuExpr, NewList(<<fn>>)>>)
             fold == Fold(label, NewList(<<target>>), AccumulatorName, NewList(<<>>),
                          LiteralBool(TRUE), step, accuExpr)
         IN  Expanded(GlobalCall(OperatorsIndex, <<fold, LiteralInt(0)>>))

\* The evaluation of an expression in the bindings env (a function from names
\* to values): its value, and the number of iterations that the folds in it
\* have made.
Evaluated(val, steps) == [val |-> val, steps |-> steps]

Bool(b) == [bool |-> b]

RECURSIVE Eval(_, _)
RECURSIVE EvalAll(_, _, _, _, _)
RECURSIVE EvalLoop(_, _, _, _, _, _)

\* The elements es[i..] evaluated in order after vals, steps counted so far.
EvalAll(es, env, i, vals, steps) ==
    IF i > Len(es) THEN [vals |-> vals, steps |-> steps]
    ELSE LET r == Eval(es[i], env)
         IN  EvalAll(es, env, i + 1, Append(vals, r.val), steps + r.steps)

\* The loop of a fold over the elements l[i..] with the accumulator accu.
EvalLoop(f, env, l, i, accu, steps) ==
    IF i > Len(l) THEN Evaluated(accu, steps)
    ELSE LET iterEnv == (f.iterVar :> l[i]) @@ (f.accuVar :> accu) @@ env
             c == Eval(f.condition, iterEnv)
         IN  IF c.val = Bool(FALSE) THEN Evaluated(accu, steps + c.steps)
             ELSE LET st == Eval(f.step, iterEnv)
                  IN  EvalLoop(f, env, l, i + 1, st.val, steps + c.steps + st.steps + 1)

Eval(e, env) ==
    IF DOMAIN e = {"ident"}
    THEN Evaluated(IF e.ident \in DOMAIN env THEN env[e.ident] ELSE Err, 0)
    ELSE IF DOMAIN e = {"lit"} THEN Evaluated(e.lit, 0)
    ELSE IF DOMAIN e = {"bool"} THEN Evaluated(Bool(e.bool), 0)
    ELSE IF DOMAIN e = {"list"}
    THEN LET r == EvalAll(e.list, env, 1, <<>>, 0)
         IN  Evaluated(IF \E i \in 1..Len(r.vals) : IsErr(r.vals[i]) THEN Err
                       ELSE Li(r.vals), r.steps)
    ELSE IF DOMAIN e = {"call"}
    THEN LET r == EvalAll(e.call.args, env, 1, <<>>, 0)
             a == r.vals
         IN  Evaluated(IF e.call.fn = OperatorsAdd
                       THEN IF IsList(a[1]) /\ IsList(a[2]) THEN Li(a[1].l \o a[2].l)
                            ELSE Err
                       ELSE IF e.call.fn = OperatorsIndex
                       THEN IF IsList(a[1]) /\ DOMAIN a[2] = {"int"}
                               /\ a[2].int >= 0 /\ a[2].int < Len(a[1].l)
                            THEN a[1].l[a[2].int + 1]
                            ELSE Err
                       ELSE IF e.call.fn = "flatten" THEN flatten(a[1])
                       ELSE IF e.call.fn = "drop_empty" THEN dropEmpty(a[1])
                       ELSE Err, r.steps)
    ELSE LET f == e.fold
             rng == Eval(f.iterRange, env)
             init == Eval(f.accuInit, env)
         IN  IF ~IsList(rng.val) THEN Evaluated(Err, rng.steps)
             ELSE LET loop == EvalLoop(f, env, rng.val.l, 1, init.val,
                                       rng.steps + init.steps)
                      res == Eval(f.result, (f.accuVar :> loop.val) @@ env)
                  IN  Evaluated(res.val, loop.steps + res.steps)

----------------------------------------------------------------------------
(* rate_limit: strings, numbers and times.                                 *)

\* A header value is a sequence of pieces: single characters, and the pieces
\* "window=", "burst=", "policy", "NaN" and the dates below, each of which
\* stands for that run of characters.
Digits == {"0", "1", "2", "3", "4", "5", "6", "7", "8", "9"}

DigitValue(c) ==
    CASE c = "0" -> 0 [] c = "1" -> 1 [] c = "2" -> 2 [] c = "3" -> 3 [] c = "4" -> 4
      [] c = "5" -> 5 [] c = "6" -> 6 [] c = "7" -> 7 [] c = "8" -> 8 [] c = "9" -> 9

RECURSIVE DecimalValue(_)
DecimalValue(s) ==
    IF Len(s) = 0 THEN 0
    ELSE 10 * DecimalValue(SubSeq(s, 1, Len(s) - 1)) + DigitValue(s[Len(s)])

AllDigits(s) == \A i \in 1..Len(s) : s[i] \in Digits

RECURSIVE Pow10(_)
Pow10(n) == IF n = 0 THEN 1 ELSE 10 * Pow10(n - 1)

\* A parsed number or time, or the failure of the parse.
Parsed(v) == [ok |-> TRUE, val |-> v]
ParseFailed == [ok |-> FALSE, val |-> 0]

\* strconv.ParseInt(s, 10, 64) and strconv.Atoi(s): an optional sign and one
\* or more decimal digits.
ParseInt(s) ==
    LET signed == Len(s) > 0 /\ s[1] \in {"+", "-"}
        body == IF signed THEN Tail(s) ELSE s
    IN  IF Len(body) > 0 /\ AllDigits(body)
        THEN Parsed((IF signed /\ s[1] = "-" THEN -1 ELSE 1) * DecimalValue(body))
        ELSE ParseFailed

Atoi(s) == ParseInt(s)

\* A float64 is the quotient num/den of two integers, den > 0, or not a
\* number, or an infinity with its sign.
Float(n, d) == [num |-> n, den |-> d]
NaN == [nan |-> TRUE]
Inf(sign) == [inf |-> sign]
IsFinite(x) == DOMAIN x = {"num", "den"}
IsNaN(x) == DOMAIN x = {"nan"}
IsInf(x) == DOMAIN x = {"inf"}
Sign(x) == IF IsInf(x) THEN x.inf ELSE IF x.num < 0 THEN -1 ELSE 1

\* The quotient x / y of two float64 values.
FloatDiv(x, y) ==
    IF IsNaN(x) \/ IsNaN(y) THEN NaN
    ELSE IF IsInf(x) THEN (IF IsInf(y) THEN NaN ELSE Inf(Sign(x) * Sign(y)))
    ELSE IF IsInf(y) THEN Float(0, 1)
    ELSE IF y.num = 0 THEN (IF x.num = 0 THEN NaN ELSE Inf(Sign(x)))
    ELSE IF y.num < 0 THEN Float(-(x.num * y.den), x.den * (-y.num))
    ELSE Float(x.num * y.den, x.den * y.num)

\* The product x * y of two float64 values.
FloatMul(x, y) ==
    IF IsNaN(x) \/ IsNaN(y) THEN NaN
    ELSE IF IsInf(x) \/ IsInf(y)
         THEN IF (IsFinite(x) /\ x.num = 0) \/ (IsFinite(y) /\ y.num = 0) THEN NaN
              ELSE Inf(Sign(x) * Sign(y))
    ELSE Float(x.num * y.num, x.den * y.den)

\* float64(n) of an integer n.
Float64(n) == Float(n, 1)

IndexOf(s, c) ==
    IF \E i \in 1..Len(s) : s[i] = c
    THEN CHOOSE i \in 1..Len(s) : s[i] = c /\ \A j \in 1..(i - 1) : s[j] # c
    ELSE 0

\* strconv.ParseFloat(s, 64) on the strings used here: an optional sign, then
\* NaN (unsigned only), or digits with at most one point and at least one
\* digit.
ParseFloat(s) ==
    LET signed == Len(s) > 0 /\ s[1] \in {"+", "-"}
        neg == signed /\ s[1] = "-"
        body == IF signed THEN Tail(s) ELSE s
        dot == IndexOf(body, ".")
        whole == IF dot = 0 THEN body ELSE SubSeq(body, 1, dot - 1)
        frac == IF dot = 0 THEN <<>> ELSE SubSeq(body, dot + 1, Len(body))
    IN  IF s = <<"NaN">> THEN Parsed(NaN)
        ELSE IF AllDigits(whole) /\ AllDigits(frac) /\ Len(whole) + Len(frac) > 0
        THEN Parsed(Float((IF neg THEN -1 ELSE 1)
                            * (DecimalValue(whole) * Pow10(Len(frac)) + DecimalValue(frac)),
                          Pow10(Len(frac))))
        ELSE ParseFailed

\* strings.TrimSpace.
RECURSIVE TrimSpace(_)
TrimSpace(s) ==
    IF Len(s) = 0 THEN s
    ELSE IF s[1] = " " THEN TrimSpace(Tail(s))
    ELSE IF s[Len(s)] = " " THEN TrimSpace(SubSeq(s, 1, Len(s) - 1))
    ELSE s

\* strings.Split(s, sep) for the one-character separator sep.
RECURSIVE Split(_, _)
Split(s, sep) ==
    LET i == IndexOf(s, sep)
    IN  IF i = 0 THEN <<s>>
        ELSE <<SubSeq(s, 1, i - 1)>> \o Split(SubSeq(s, i + 1, Len(s)), sep)

\* strings.HasPrefix and strings.TrimPrefix for a prefix that is one piece.
HasPrefix(s, prefix) == Len(s) > 0 /\ s[1] = prefix
TrimPrefix(s, prefix) == IF HasPrefix(s, prefix) THEN Tail(s) ELSE s

\* Times are seconds since the Unix epoch. The dates that the reset header
\* may hold: one in the layout http.TimeFormat, which ends in GMT, and one in
\* the layout time.RFC1123 with the zone UTC.
DateGMT == "Thu, 01 Jan 1970 00:00:03 GMT"
DateUTC == "Thu, 01 Jan 1970 00:00:04 UTC"

\* time.Parse(http.TimeFormat, s).
ParseHTTPTime(s) == IF s = <<DateGMT>> THEN Parsed(3) ELSE ParseFailed

\* time.Parse(time.RFC1123, s): the zone may be any abbreviation.
ParseRFC1123(s) ==
    IF s = <<DateGMT>> THEN Parsed(3)
    ELSE IF s = <<DateUTC>> THEN Parsed(4)
    ELSE ParseFailed

\* time.Until(t).Seconds() at the time now.
UntilSeconds(t, now) == Float64(t - now)

----------------------------------------------------------------------------
(* rate_limit: the okta, draft and general policies.                       *)

\* A header key is the sequence of its words, which the key joins with "-".
\* textproto.CanonicalMIMEHeaderKey puts each word in upper case at its first
\* letter and in lower case after it.
CanonicalWord(w) ==
    CASE w = "RateLimit" -> "Ratelimit"
      [] w = "rate" -> "Rate"
      [] w = "limit" -> "Limit"
      [] OTHER -> w

CanonicalMIMEHeaderKey(k) == [i \in 1..Len(k) |-> CanonicalWord(k[i])]

\* http.Header.Get: the first value of the canonical form of the key.
HeaderGet(h, key) ==
    LET k == CanonicalMIMEHeaderKey(key)
    IN  IF k \in DOMAIN h /\ Len(h[k]) > 0 THEN h[k][1] ELSE <<>>

getNonCanonical(h, k) ==
    IF k \in DOMAIN h /\ Len(h[k]) > 0 THEN h[k][1] ELSE <<>>

\* The headers field: the three keys with their values, as fmt.Sprintf
\* writes them.
HeadersField(limitKey, limit, remainingKey, remaining, resetKey, reset) ==
    <<limitKey, limit, remainingKey, remaining, resetKey, reset>>

\* The values of type time.Time and time.Duration.
Time(t) == [unix |-> t]
Duration(secs) == [dur |-> secs]
IsDuration(x) == DOMAIN x = {"dur"}
IsBool(x) == DOMAIN x = {"bool"}
IsInt(x) == DOMAIN x = {"int"}

\* The messages of the errors.
ErrorOf(what, s) == <<what, s>>

\* int64(d) of a float64, towards zero.
Truncated(x) ==
    IF x.num >= 0 THEN x.num \div x.den ELSE -((-x.num) \div x.den)

OktaKey(word) == <<"X", "Rate", "Limit", word>>

OktaRateLimit(h, window, now) ==
    LET limit == HeaderGet(h, OktaKey("Limit"))
        remaining == HeaderGet(h, OktaKey("Remaining"))
        reset == HeaderGet(h, OktaKey("Reset"))
        hdr == "headers" :> HeadersField(OktaKey("Limit"), limit, OktaKey("Remaining"),
                                         remaining, OktaKey("Reset"), reset)
        lim == ParseFloat(limit)
        rem == ParseFloat(remaining)
        rst == ParseInt(reset)
    IN  IF limit = <<>> \/ remaining = <<>> \/ reset = <<>> THEN hdr
        ELSE IF ~lim.ok THEN hdr @@ ("error" :> ErrorOf("ParseFloat", limit))
        ELSE IF ~rem.ok THEN hdr @@ ("error" :> ErrorOf("ParseFloat", remaining))
        ELSE IF ~rst.ok THEN hdr @@ ("error" :> ErrorOf("ParseInt", reset))
        ELSE LET resetTime == rst.val
                 per == UntilSeconds(resetTime, now)
             IN  hdr @@ ("rate" :> FloatDiv(rem.val, per))
                     @@ ("next" :> FloatDiv(lim.val, Float64(window)))
                     @@ ("burst" :> 1)
                     @@ ("reset" :> Time(resetTime))

\* policy.quota: the value, or the error.
policyQuota(p) ==
    LET idx == IndexOf(p, ";")
    IN  IF idx = 0 THEN [val |-> 0, err |-> ErrorOf("invalid policy", p)]
        ELSE LET q == Atoi(SubSeq(p, 1, idx - 1))
             IN  IF q.ok THEN [val |-> q.val, err |-> <<>>]
                 ELSE [val |-> 0, err |-> ErrorOf("Atoi", SubSeq(p, 1, idx - 1))]

\* The loop of policy.details with the parts taken as they are split.
RECURSIVE policyDetailsFromUntrimmed(_, _, _, _)
policyDetailsFromUntrimmed(fs, i, window, burst) ==
    IF i > Len(fs) THEN [window |-> window, burst |-> burst, err |-> <<>>]
    ELSE LET f == fs[i]
         IN  IF HasPrefix(f, "window=")
             THEN LET w == Atoi(TrimPrefix(f, "window="))
                  IN  IF ~w.ok
                      THEN [window |-> w.val, burst |-> burst,
                            err |-> ErrorOf("Atoi", TrimPrefix(f, "window="))]
                      ELSE policyDetailsFromUntrimmed(fs, i + 1, w.val, burst)
             ELSE IF HasPrefix(f, "burst=")
             THEN LET b == Atoi(TrimPrefix(f, "burst="))
                  IN  IF ~b.ok
                      THEN [window |-> window, burst |-> b.val,
                            err |-> ErrorOf("Atoi", TrimPrefix(f, "burst="))]
                      ELSE policyDetailsFromUntrimmed(fs, i + 1, window, b.val)
             ELSE policyDetailsFromUntrimmed(fs, i + 1, window, burst)

\* The loop of policy.details over the parts fs[i..] of the policy.
RECURSIVE policyDetailsFrom(_, _, _, _)
policyDetailsFrom(fs, i, window, burst) ==
    IF i > Len(fs) THEN [window |-> window, burst |-> burst, err |-> <<>>]
    ELSE LET f == TrimSpace(fs[i])
         IN  IF HasPrefix(f, "window=")
             THEN LET w == Atoi(TrimPrefix(f, "window="))
                  IN  IF ~w.ok
                      THEN [window |-> w.val, burst |-> burst,
                            err |-> ErrorOf("Atoi", TrimPrefix(f, "window="))]
                      ELSE policyDetailsFrom(fs, i + 1, w.val, burst)
             ELSE IF HasPrefix(f, "burst=")
             THEN LET b == Atoi(TrimPrefix(f, "burst="))
                  IN  IF ~b.ok
                      THEN [window |-> window, burst |-> b.val,
                            err |-> ErrorOf("Atoi", TrimPrefix(f, "burst="))]
                      ELSE policyDetailsFrom(fs, i + 1, window, b.val)
             ELSE policyDetailsFrom(fs, i + 1, window, burst)

policyDetails(p, q) == policyDetailsFrom(Split(p, ";"), 1, -1, -1)

\* The loop of DraftRateLimit below, taking a burst of zero as well.
RECURSIVE draftPoliciesFromAnyBurst(_, _, _, _, _)
draftPoliciesFromAnyBurst(fs, i, quota, win, burst) ==
    IF i > Len(fs) THEN [win |-> win, burst |-> burst, err |-> <<>>]
    ELSE LET p == TrimSpace(fs[i])
             q == policyQuota(p)
         IN  IF q.err # <<>> THEN [win |-> win, burst |-> burst, err |-> q.err]
             ELSE IF q.val > quota THEN [win |-> win, burst |-> burst, err |-> <<>>]
             ELSE LET d == policyDetails(p, q.val)
                  IN  IF d.err # <<>> THEN [win |-> win, burst |-> burst, err |-> d.err]
                      ELSE draftPoliciesFromAnyBurst(fs, i + 1, quota,
                              IF d.window >= 0 THEN Float64(d.window) ELSE win,
                              IF d.burst >= 0 THEN d.burst ELSE burst)

\* The loop of DraftRateLimit below, passing over a field whose quota is
\* above the first one and going on with the fields after it.
RECURSIVE draftPoliciesFromSkipping(_, _, _, _, _)
draftPoliciesFromSkipping(fs, i, quota, win, burst) ==
    IF i > Len(fs) THEN [win |-> win, burst |-> burst, err |-> <<>>]
    ELSE LET p == TrimSpace(fs[i])
             q == policyQuota(p)
         IN  IF q.err # <<>> THEN [win |-> win, burst |-> burst, err |-> q.err]
             ELSE IF q.val > quota THEN draftPoliciesFromSkipping(fs, i + 1, quota, win, burst)
             ELSE LET d == policyDetails(p, q.val)
                  IN  IF d.err # <<>> THEN [win |-> win, burst |-> burst, err |-> d.err]
                      ELSE draftPoliciesFromSkipping(fs, i + 1, quota,
                              IF d.window >= 0 THEN Float64(d.window) ELSE win,
                              IF d.burst > 0 THEN d.burst ELSE burst)

\* The loop of DraftRateLimit below, reading the window= and burst= parts of
\* a field before its quota is compared with the first one.
RECURSIVE draftPoliciesFromDetailsFirst(_, _, _, _, _)
draftPoliciesFromDetailsFirst(fs, i, quota, win, burst) ==
    IF i > Len(fs) THEN [win |-> win, burst |-> burst, err |-> <<>>]
    ELSE LET p == TrimSpace(fs[i])
             q == policyQuota(p)
             d == policyDetails(p, q.val)
         IN  IF q.err # <<>> THEN [win |-> win, burst |-> burst, err |-> q.err]
             ELSE IF d.err # <<>> THEN [win |-> win, burst |-> burst, err |-> d.err]
             ELSE IF q.val > quota THEN [win |-> win, burst |-> burst, err |-> <<>>]
             ELSE draftPoliciesFromDetailsFirst(fs, i + 1, quota,
                      IF d.window >= 0 THEN Float64(d.window) ELSE win,
                      IF d.burst > 0 THEN d.burst ELSE burst)

\* The loop of DraftRateLimit over the fields fs[i..] after the first one:
\* the window and the burst it ends with, or the error it returns with.
RECURSIVE draftPoliciesFrom(_, _, _, _, _)
draftPoliciesFrom(fs, i, quota, win, burst) ==
    IF i > Len(fs) THEN [win |-> win, burst |-> burst, err |-> <<>>]
    ELSE LET p == TrimSpace(fs[i])
             q == policyQuota(p)
         IN  IF q.err # <<>> THEN [win |-> win, burst |-> burst, err |-> q.err]
             ELSE IF q.val > quota THEN [win |-> win, burst |-> burst, err |-> <<>>]
             ELSE LET d == policyDetails(p, q.val)
                  IN  IF d.err # <<>> THEN [win |-> win, burst |-> burst, err |-> d.err]
                      ELSE draftPoliciesFrom(fs, i + 1, quota,
                              IF d.window >= 0 THEN Float64(d.window) ELSE win,
                              IF d.burst > 0 THEN d.burst ELSE burst)

DraftKey(word) == <<"Rate", "Limit", word>>

\* DraftRateLimit dividing by the period times the window.
DraftRateLimitPerWindow(h, window, now) ==
    LET limit == HeaderGet(h, DraftKey("Limit"))
        remaining == HeaderGet(h, DraftKey("Remaining"))
        reset == HeaderGet(h, DraftKey("Reset"))
        hdr == "headers" :> HeadersField(DraftKey("Limit"), limit, DraftKey("Remaining"),
                                         remaining, DraftKey("Reset"), reset)
        rem == ParseFloat(remaining)
        d == ParseFloat(reset)
        t1 == ParseHTTPTime(reset)
        t2 == ParseRFC1123(reset)
        per == IF d.ok THEN d.val
               ELSE IF t1.ok THEN UntilSeconds(t1.val, now)
               ELSE UntilSeconds(t2.val, now)
        resetTime == IF d.ok THEN now + Truncated(d.val)
                     ELSE IF t1.ok THEN t1.val
                     ELSE t2.val
        limFields == Split(limit, ",")
        quota == Atoi(limFields[1])
    IN  IF limit = <<>> \/ remaining = <<>> \/ reset = <<>> THEN hdr
        ELSE IF ~rem.ok THEN hdr @@ ("error" :> ErrorOf("ParseFloat", remaining))
        ELSE IF ~d.ok /\ ~t1.ok /\ ~t2.ok
        THEN hdr @@ ("error" :> ErrorOf("could not parse as number or timestamp", reset))
        ELSE IF ~quota.ok THEN hdr @@ ("error" :> ErrorOf("Atoi", limFields[1]))
        ELSE LET r == draftPoliciesFrom(Tail(limFields), 1, quota.val, Float64(window), 1)
             IN  IF r.err # <<>> THEN hdr @@ ("error" :> r.err)
                 ELSE hdr @@ ("rate" :> FloatDiv(rem.val, FloatMul(per, r.win)))
                          @@ ("next" :> FloatDiv(Float64(quota.val), r.win))
                          @@ ("burst" :> r.burst)
                          @@ ("reset" :> Time(resetTime))

DraftRateLimit(h, window, now) ==
    LET limit == HeaderGet(h, DraftKey("Limit"))
        remaining == HeaderGet(h, DraftKey("Remaining"))
        reset == HeaderGet(h, DraftKey("Reset"))
        hdr == "headers" :> HeadersField(DraftKey("Limit"), limit, DraftKey("Remaining"),
                                         remaining, DraftKey("Reset"), reset)
        rem == ParseFloat(remaining)
        d == ParseFloat(reset)
        t1 == ParseHTTPTime(reset)
        t2 == ParseRFC1123(reset)
        per == IF d.ok THEN d.val
               ELSE IF t1.ok THEN UntilSeconds(t1.val, now)
               ELSE UntilSeconds(t2.val, now)
        resetTime == IF d.ok THEN now + Truncated(d.val)
                     ELSE IF t1.ok THEN t1.val
                     ELSE t2.val
        limFields == Split(limit, ",")
        quota == Atoi(limFields[1])
    IN  IF limit = <<>> \/ remaining = <<>> \/ reset = <<>> THEN hdr
        ELSE IF ~rem.ok THEN hdr @@ ("error" :> ErrorOf("ParseFloat", remaining))
        ELSE IF ~d.ok /\ ~t1.ok /\ ~t2.ok
        THEN hdr @@ ("error" :> ErrorOf("could not parse as number or timestamp", reset))
        ELSE IF ~quota.ok THEN hdr @@ ("error" :> ErrorOf("Atoi", limFields[1]))
        ELSE LET r == draftPoliciesFrom(Tail(limFields), 1, quota.val, Float64(window), 1)
             IN  IF r.err # <<>> THEN hdr @@ ("error" :> r.err)
                 ELSE hdr @@ ("rate" :> FloatDiv(rem.val, per))
                          @@ ("next" :> FloatDiv(Float64(quota.val), r.win))
                          @@ ("burst" :> r.burst)
                          @@ ("reset" :> Time(resetTime))

\* limitPolicy with the missing headers looked for after the parsing.
limitPolicyParsingFirst(h, prefix, canonical, delta, window, burst, now) ==
    LET limitKey == Append(prefix, "Limit")
        limit == IF canonical THEN HeaderGet(h, limitKey) ELSE getNonCanonical(h, limitKey)
        remainingKey == Append(prefix, "Remaining")
        remaining == IF canonical THEN HeaderGet(h, remainingKey)
                     ELSE getNonCanonical(h, remainingKey)
        resetKey == Append(prefix, "Reset")
        reset == IF canonical THEN HeaderGet(h, resetKey) ELSE getNonCanonical(h, resetKey)
        m == "headers" :> HeadersField(limitKey, limit, remainingKey, remaining,
                                       resetKey, reset)
        lim == ParseFloat(limit)
        rem == ParseFloat(remaining)
    IN  IF ~lim.ok /\ limit # <<>> THEN m @@ ("error" :> ErrorOf("ParseFloat", limit))
        ELSE IF ~rem.ok /\ remaining # <<>>
        THEN m @@ ("error" :> ErrorOf("ParseFloat", remaining))
        ELSE m

\* limitPolicy writing the error next to the other fields.
limitPolicyKeepingFields(h, prefix, canonical, delta, window, burst, now) ==
    LET limitKey == Append(prefix, "Limit")
        limit == IF canonical THEN HeaderGet(h, limitKey) ELSE getNonCanonical(h, limitKey)
        remainingKey == Append(prefix, "Remaining")
        remaining == IF canonical THEN HeaderGet(h, remainingKey)
                     ELSE getNonCanonical(h, remainingKey)
        resetKey == Append(prefix, "Reset")
        reset == IF canonical THEN HeaderGet(h, resetKey) ELSE getNonCanonical(h, resetKey)
        m == "headers" :> HeadersField(limitKey, limit, remainingKey, remaining,
                                       resetKey, reset)
        lim == ParseFloat(limit)
    IN  IF limit = <<>> \/ remaining = <<>> \/ reset = <<>> THEN m
        ELSE IF ~lim.ok
        THEN m @@ ("error" :> ErrorOf("ParseFloat", limit)) @@ ("burst" :> burst)
        ELSE m @@ ("burst" :> burst)

\* limitPolicy reading every integer Reset as a delta from now.
limitPolicyAlwaysDelta(h, prefix, canonical, delta, window, burst, now) ==
    LET limitKey == Append(prefix, "Limit")
        limit == IF canonical THEN HeaderGet(h, limitKey) ELSE getNonCanonical(h, limitKey)
        remainingKey == Append(prefix, "Remaining")
        remaining == IF canonical THEN HeaderGet(h, remainingKey)
                     ELSE getNonCanonical(h, remainingKey)
        resetKey == Append(prefix, "Reset")
        reset == IF canonical THEN HeaderGet(h, resetKey) ELSE getNonCanonical(h, resetKey)
        m == "headers" :> HeadersField(limitKey, limit, remainingKey, remaining,
                                       resetKey, reset)
        lim == ParseFloat(limit)
        rem == ParseFloat(remaining)
        d == ParseInt(reset)
        t1 == ParseHTTPTime(reset)
        t2 == ParseRFC1123(reset)
        resetTime == IF d.ok THEN now + d.val
                     ELSE IF t1.ok THEN t1.val
                     ELSE t2.val
        untilReset == IF d.ok THEN Float64(d.val)
                      ELSE UntilSeconds(resetTime, now)
        per == FloatMul(untilReset, Float64(window))
    IN  IF limit = <<>> \/ remaining = <<>> \/ reset = <<>> THEN m
        ELSE IF ~lim.ok THEN m @@ ("error" :> ErrorOf("ParseFloat", limit))
        ELSE IF ~rem.ok THEN m @@ ("error" :> ErrorOf("ParseFloat", remaining))
        ELSE IF ~d.ok /\ ~t1.ok /\ ~t2.ok
        THEN m @@ ("error" :> ErrorOf("could not parse as number or timestamp", reset))
        ELSE m @@ ("next" :> FloatDiv(lim.val, Float64(window)))
               @@ ("rate" :> FloatDiv(rem.val, per))
               @@ ("burst" :> IF burst < 1 THEN 1 ELSE burst)
               @@ ("reset" :> Time(resetTime))

limitPolicy(h, prefix, canonical, delta, window, burst, now) ==
    LET limitKey == Append(prefix, "Limit")
        limit == IF canonical THEN HeaderGet(h, limitKey) ELSE getNonCanonical(h, limitKey)
        remainingKey == Append(prefix, "Remaining")
        remaining == IF canonical THEN HeaderGet(h, remainingKey)
                     ELSE getNonCanonical(h, remainingKey)
        resetKey == Append(prefix, "Reset")
        reset == IF canonical THEN HeaderGet(h, resetKey) ELSE getNonCanonical(h, resetKey)
        m == "headers" :> HeadersField(limitKey, limit, remainingKey, remaining,
                                       resetKey, reset)
        lim == ParseFloat(limit)
        rem == ParseFloat(remaining)
        d == ParseInt(reset)
        t1 == ParseHTTPTime(reset)
        t2 == ParseRFC1123(reset)
        resetTime == IF d.ok THEN (IF delta THEN now + d.val ELSE d.val)
                     ELSE IF t1.ok THEN t1.val
                     ELSE t2.val
        untilReset == IF d.ok /\ delta THEN Float64(d.val)
                      ELSE UntilSeconds(resetTime, now)
        per == FloatMul(untilReset, Float64(window))
    IN  IF limit = <<>> \/ remaining = <<>> \/ reset = <<>> THEN m
        ELSE IF ~lim.ok THEN m @@ ("error" :> ErrorOf("ParseFloat", limit))
        ELSE IF ~rem.ok THEN m @@ ("error" :> ErrorOf("ParseFloat", remaining))
        ELSE IF ~d.ok /\ ~t1.ok /\ ~t2.ok
        THEN m @@ ("error" :> ErrorOf("could not parse as number or timestamp", reset))
        ELSE m @@ ("next" :> FloatDiv(lim.val, Float64(window)))
               @@ ("rate" :> FloatDiv(rem.val, per))
               @@ ("burst" :> IF burst < 1 THEN 1 ELSE burst)
               @@ ("reset" :> Time(resetTime))

\* mapStrings: the headers as a map from keys to lists of strings, or an
\* error when a value is not a list of strings.
mapStrings(val) ==
    IF \A k \in DOMAIN val.m :
          IsList(val.m[k]) /\ \A i \in 1..Len(val.m[k].l) : IsStr(val.m[k].l[i])
    THEN [h |-> [k \in DOMAIN val.m |->
                    [i \in 1..Len(val.m[k].l) |-> val.m[k].l[i].str]],
          err |-> FALSE]
    ELSE [h |-> <<>>, err |-> TRUE]

\* The policies that the library is given, by name.
Policies == {"okta", "draft"}

\* The method translatePolicy of limitLib: rate_limit with a policy name.
limitLibTranslatePolicy(args, now) ==
    IF Len(args) # 3 THEN Err
    ELSE IF ~IsMap(args[1]) THEN Err
    ELSE IF ~IsStr(args[2]) THEN Err
    ELSE IF ~IsDuration(args[3]) THEN Err
    ELSE IF args[2].str \notin Policies THEN Err
    ELSE LET hs == mapStrings(args[1])
         IN  IF hs.err THEN Err
             ELSE IF args[2].str = "okta" THEN Ma(OktaRateLimit(hs.h, args[3].dur, now))
             ELSE Ma(DraftRateLimit(hs.h, args[3].dur, now))

\* The function translatePolicy: rate_limit with the parameters of a policy.
translatePolicy(args, now) ==
    IF Len(args) # 6 THEN Err
    ELSE IF ~IsMap(args[1]) THEN Err
    ELSE LET hs == mapStrings(args[1])
         IN  IF hs.err THEN Err
             ELSE IF ~IsStr(args[2]) THEN Err
             ELSE IF ~IsBool(args[3]) THEN Err
             ELSE IF ~IsBool(args[4]) THEN Err
             ELSE IF ~IsDuration(args[5]) THEN Err
             ELSE IF ~IsInt(args[6]) THEN Err
             ELSE Ma(limitPolicy(hs.h, args[2].str, args[3].bool, args[4].bool,
                                 args[5].dur, args[6].int, now))

----------------------------------------------------------------------------
(* The calls. Each evaluation takes its receiver and argument and returns  *)
(* one result; the functions hold no state between calls.                  *)

PathRoots == Roots(PathKeys, MaxNodes)

Init ==
    /\ root \in PathRoots
    /\ fields \in {Str(p) : p \in PathStrings(MaxSegs)}
    /\ op = "none"
    /\ result = Null
    /\ pc = "ready"

CallDrop ==
    /\ pc = "ready"
    /\ result' = dropFields(root, fields)
    /\ op' = "drop"
    /\ pc' = "done"
    /\ UNCHANGED <<root, fields>>

CallCollate ==
    /\ pc = "ready"
    /\ result' = collateFields(root, fields)
    /\ op' = "collate"
    /\ pc' = "done"
    /\ UNCHANGED <<root, fields>>

Next == CallDrop \/ CallCollate

Spec == Init /\ [][Next]_vars

\* drop and collate with a list of paths as well as with a single path.
MultiRoots == Roots(PathKeys, MaxNodesMulti)

\* The paths given alone or in a list: a, a\.a, a.a, a\.a.a, the empty path
\* and a path with a trailing dot.
MultiPathStrings ==
    {SegA, SegAescA, Join(<<SegA, SegA>>), Join(<<SegAescA, SegA>>),
     SegEmpty, Join(<<SegA, SegEmpty>>)}

MultiFields ==
    {Str(p) : p \in MultiPathStrings}
    \cup {Li(l) : l \in ListsOf({Str(p) : p \in MultiPathStrings}, MaxPaths)}

InitMulti ==
    /\ root \in MultiRoots
    /\ fields \in MultiFields
    /\ op = "none"
    /\ result = Null
    /\ pc = "ready"

SpecMulti == InitMulti /\ [][Next]_vars

\* drop_empty takes the receiver only: a list or a map.
EmptyRoots == Roots(PlainKeys, MaxNodesEmpty)

InitEmpty ==
    /\ root \in EmptyRoots
    /\ fields = Null
    /\ op = "none"
    /\ result = Null
    /\ pc = "ready"

CallDropEmpty ==
    /\ pc = "ready"
    /\ result' = dropEmpty(root)
    /\ op' = "drop_empty"
    /\ pc' = "done"
    /\ UNCHANGED <<root, fields>>

NextEmpty == CallDropEmpty

SpecEmpty == InitEmpty /\ [][NextEmpty]_vars

\* flatten takes the receiver only: list_flatten is declared for a list.
FlattenRoots == {x \in ValuesUpTo(<<KeyA>>, MaxNodesFlatten) : IsList(x)}

InitFlatten ==
    /\ root \in FlattenRoots
    /\ fields = Null
    /\ op = "none"
    /\ result = Null
    /\ pc = "ready"

CallFlatten ==
    /\ pc = "ready"
    /\ result' = flatten(root)
    /\ op' = "flatten"
    /\ pc' = "done"
    /\ UNCHANGED <<root, fields>>

NextFlatten == CallFlatten

SpecFlatten == InitFlatten /\ [][NextFlatten]_vars

\* with, with_update and with_replace take a receiver and an argument. The
\* maps have their keys among the first MaxKeysWith keys a, aa, aaa, ...; the
\* two other values reach the branches for an argument that is not a map.
WithKey(i) == [j \in 1..i |-> "a"]

WithKeys == {WithKey(i) : i \in 1..MaxKeysWith}

WithVals == Scalars \cup {Li(<<>>)}

WithMaps == {Ma(f) : f \in UNION {[K -> WithVals] : K \in SUBSET WithKeys}}

WithArgs == WithMaps \cup {Sc(0), Li(<<>>)}

InitWith ==
    /\ root \in WithArgs
    /\ fields \in WithArgs
    /\ op = "none"
    /\ result = Null
    /\ pc = "ready"

\* A call leaves in root and fields what the heap holds for the two
\* arguments once the function has returned.
CallWith ==
    /\ pc = "ready"
    /\ LET c == withAll(root, fields)
       IN  /\ result' = c.val
           /\ root' = c.heap.dst
           /\ fields' = c.heap.src
    /\ op' = "with"
    /\ pc' = "done"

CallWithUpdate ==
    /\ pc = "ready"
    /\ LET c == withUpdate(root, fields)
       IN  /\ result' = c.val
           /\ root' = c.heap.dst
           /\ fields' = c.heap.src
    /\ op' = "with_update"
    /\ pc' = "done"

CallWithReplace ==
    /\ pc = "ready"
    /\ LET c == withReplace(root, fields)
       IN  /\ result' = c.val
           /\ root' = c.heap.dst
           /\ fields' = c.heap.src
    /\ op' = "with_replace"
    /\ pc' = "done"

NextWith == CallWith \/ CallWithUpdate \/ CallWithReplace

SpecWith == InitWith /\ [][NextWith]_vars

\* The as macro takes a target, an argument that should be an identifier and
\* a body; the expanded expression is evaluated with no variable bound.
AsTargets == ValuesUpTo(<<KeyA>>, MaxNodesAs)

AsLabels == {Ident("v"), Ident("w"), LiteralInt(0)}

\* Bodies: v, 0, [v, v], w, flatten(v), drop_empty(v), and two bodies that
\* are expansions themselves: v.as(w, [w, v]) and [v].as(v, v).
AsBodies ==
    {Ident("v"), LiteralInt(0), NewList(<<Ident("v"), Ident("v")>>), Ident("w"),
     GlobalCall("flatten", <<Ident("v")>>), GlobalCall("drop_empty", <<Ident("v")>>),
     makeAs(Ident("v"), <<Ident("w"), NewList(<<Ident("w"), Ident("v")>>)>>).expr,
     makeAs(NewList(<<Ident("v")>>), <<Ident("v"), Ident("v")>>).expr}

InitAs ==
    /\ root \in AsTargets
    /\ fields \in {[args |-> <<l, b>>] : l \in AsLabels, b \in AsBodies}
    /\ op = "none"
    /\ result = Null
    /\ pc = "ready"

\* The expansion of root.as(args), then its evaluation.
CallAs ==
    /\ pc = "ready"
    /\ LET x == makeAs(Literal(root), fields.args)
       IN  result' = IF DOMAIN x = {"error"} THEN x ELSE Eval(x.expr, <<>>)
    /\ op' = "as"
    /\ pc' = "done"
    /\ UNCHANGED <<root, fields>>

NextAs == CallAs

SpecAs == InitAs /\ [][NextAs]_vars

\* rate_limit takes the headers and either the name of a policy and a window
\* or the parameters of a policy; it reads the clock once.

\* The Limit header 12, 12;window=1; burst=1000;policy="leaky bucket" of the
\* documentation.
LeakyBucketLimit ==
    <<"1", "2", ",", " ", "1", "2", ";", "window=", "1", ";", " ", "burst=",
      "1", "0", "0", "0", ";", "policy=\"leaky bucket\"">>

\* The values of the Limit header: 2, x, 1.5, and a quota of 2 followed by
\* the sub-policies 1;burst=2 / 1;burst=0 / 1;burst=-1 / 1;window=1; burst=3
\* / 3;burst=x / 1;burst=x / 1 / 1;window=2, 2;burst=2;policy
\* / 1;burst=2,3;burst=3;window=3,1;window=1 / 3;window=1,x / 1;window=-1
\* / 1;window=1;burst=2,2;window=2;burst=3,
\* and the header of the documentation.
LimitValues ==
    {<<"2">>, <<"x">>, <<"1", ".", "5">>,
     <<"2", ",", "1", ";", "burst=", "2">>,
     <<"2", ",", "1", ";", "burst=", "0">>,
     <<"2", ",", "1", ";", "burst=", "-", "1">>,
     <<"2", ",", " ", "1", ";", "window=", "1", ";", " ", "burst=", "3">>,
     <<"2", ",", "3", ";", "burst=", "x">>,
     <<"2", ",", "1", ";", "burst=", "x">>,
     <<"2", ",", "1">>,
     <<"2", ",", "1", ";", "window=", "2", ",", " ", "2", ";", "burst=", "2", ";", "policy">>,
     <<"2", ",", "1", ";", "burst=", "2", ",", "3", ";", "burst=", "3", ";", "window=", "3",
       ",", "1", ";", "window=", "1">>,
     <<"2", ",", "3", ";", "window=", "1", ",", "x">>,
     <<"2", ",", "1", ";", "window=", "-", "1">>,
     <<"2", ",", "1", ";", "window=", "1", ";", "burst=", "2", ",",
       "2", ";", "window=", "2", ";", "burst=", "3">>,
     LeakyBucketLimit}

\* The values of the Remaining header: 1, x, NaN and 100.
RemainingValues == {<<"1">>, <<"x">>, <<"NaN">>, <<"1", "0", "0">>}

\* The values of the Reset header: 2, x, 1.5, the two dates and 36000.
ResetValues ==
    {<<"2">>, <<"x">>, <<"1", ".", "5">>, <<DateGMT>>, <<DateUTC>>,
     <<"3", "6", "0", "0", "0">>}

\* What the headers hold for one key: nothing, a list of no value, the empty
\* string, or one of the values.
Held(values) == {Null, Li(<<>>), Li(<<Str(<<>>)>>)} \cup {Li(<<Str(v)>>) : v \in values}

\* The headers with the keys prefix-Limit, prefix-Remaining and prefix-Reset.
HeaderOf(prefix, limit, remaining, reset) ==
    LET keys == [w \in {"Limit", "Remaining", "Reset"} |-> Append(prefix, w)]
        held == [w \in {"Limit", "Remaining", "Reset"} |->
                    IF w = "Limit" THEN limit ELSE IF w = "Remaining" THEN remaining ELSE reset]
        present == {w \in {"Limit", "Remaining", "Reset"} : held[w] # Null}
    IN  Ma([k \in {keys[w] : w \in present} |->
               held[CHOOSE w \in present : keys[w] = k]])

HeadersWith(prefix) ==
    {HeaderOf(prefix, l, r, t) :
        l \in Held(LimitValues), r \in Held(RemainingValues), t \in Held(ResetValues)}
    \cup {Li(<<>>), Ma(Append(prefix, "Limit") :> Sc(0))}

PrefixOkta == <<"X", "Rate", "Limit">>
PrefixDraft == <<"Rate", "Limit">>
PrefixNonCanonical == <<"X", "RateLimit">>

Windows == {Duration(1), Duration(60)}

\* The calls with a policy name, and the prefix of the headers they read.
NamedCalls ==
    {[args |-> <<Str(n), w>>, prefix |-> IF n = "okta" THEN PrefixOkta ELSE PrefixDraft] :
        n \in Policies \cup {"unknown"}, w \in Windows}

\* The calls with the parameters of a policy.
GeneralCalls ==
    {[args |-> <<Str(p), Bool(c), Bool(d), w, Sc(b)>>, prefix |-> p] :
        p \in {PrefixDraft, PrefixNonCanonical}, c \in BOOLEAN, d \in BOOLEAN,
        w \in Windows, b \in (-1)..MaxBurstArg}

InitLimit ==
    /\ \E c \in NamedCalls \cup GeneralCalls, now \in 0..MaxNow :
          /\ root \in HeadersWith(c.prefix)
          /\ fields = [args |-> c.args, now |-> now]
    /\ op = "none"
    /\ result = Null
    /\ pc = "ready"

CallRateLimitNamed ==
    /\ pc = "ready"
    /\ Len(fields.args) = 2
    /\ result' = limitLibTranslatePolicy(<<root>> \o fields.args, fields.now)
    /\ op' = "rate_limit"
    /\ pc' = "done"
    /\ UNCHANGED <<root, fields>>

CallRateLimitGeneral ==
    /\ pc = "ready"
    /\ Len(fields.args) = 5
    /\ result' = translatePolicy(<<root>> \o fields.args, fields.now)
    /\ op' = "rate_limit"
    /\ pc' = "done"
    /\ UNCHANGED <<root, fields>>

NextLimit == CallRateLimitNamed \/ CallRateLimitGeneral

SpecLimit == InitLimit /\ [][NextLimit]_vars

----------------------------------------------------------------------------
(* send_to and close: the evaluation of v.send_to(name).close(name) beside *)
(* the goroutines of the host program that receive from the channel.       *)

\* The nil interface value of Go.
Nil == [nil |-> <<>>]

\* val.ConvertToNative for the type that encodableTypes or protobufTypes
\* gives for the type of val; Nil where no conversion succeeds.
RECURSIVE ConvertToNative(_)
ConvertToNative(val) ==
    IF IsInt(val) THEN [int64 |-> val.int]
    ELSE IF IsStr(val) THEN [string |-> val.str]
    ELSE IF IsBool(val) THEN [gobool |-> val.bool]
    ELSE IF IsList(val) THEN [slice |-> [i \in DOMAIN val.l |-> ConvertToNative(val.l[i])]]
    ELSE IF IsMap(val) THEN [mapStringAny |-> [k \in DOMAIN val.m |-> ConvertToNative(val.m[k])]]
    ELSE IF val = Null THEN [structpbValue |-> "NullValue"]
    ELSE Nil

\* make(chan interface{}): a channel without buffer, open, no sender parked.
MakeChan == [sendq |-> <<>>, closed |-> FALSE]

\* c <- v: the sender parks with its value until a receiver takes it.
ChanSend(c, v) == [c EXCEPT !.sendq = Append(@, v)]

\* A channel with room for the value lets the sender go on at once.
SendReleasedBuffered(c, v) == TRUE

\* The parked sender of v goes on when a receiver has taken v.
SendReleased(c, v) == \A i \in DOMAIN c.sendq : c.sendq[i] # v

\* <-c can proceed: a sender is parked, or the channel is closed.
CanReceive(c) == c.sendq # <<>> \/ c.closed

\* <-c: the value of the first parked sender, or nil from a closed channel.
Received(c) == IF c.sendq # <<>> THEN Head(c.sendq) ELSE Nil
AfterReceive(c) == IF c.sendq # <<>> THEN [c EXCEPT !.sendq = Tail(@)] ELSE c

\* sendLib.send up to its channel operation: the error it returns, or the
\* channel and the native value it sends.
send(ch, val, arg) ==
    IF ~IsStr(arg) THEN [ret |-> Err]
    ELSE IF arg.str \notin DOMAIN ch THEN [ret |-> Err]
    ELSE IF ConvertToNative(val) = Nil THEN [ret |-> Err]
    ELSE [c |-> arg.str, v |-> ConvertToNative(val)]

\* sendLib.close: the channels and the value returned; closing a closed
\* channel panics.
close(ch, arg) ==
    IF ~IsStr(arg) THEN [ch |-> ch, ret |-> Err]
    ELSE IF arg.str \notin DOMAIN ch THEN [ch |-> ch, ret |-> Err]
    ELSE IF ch[arg.str].closed THEN [ch |-> ch, panic |-> "close of closed channel"]
    ELSE [ch |-> [ch EXCEPT ![arg.str].closed = TRUE], ret |-> Bool(TRUE)]

\* The name of the channel of the host program, and a name it does not have.
ChName == <<"ch">>
NoName == <<"no">>

\* The values sent.
SendValues ==
    {Sc(42), Sc(0), Str(<<"a">>), Bool(TRUE), Null, Err,
     Li(<<>>), Li(<<Sc(1), Str(<<>>)>>), Ma(KeyA :> Sc(1)), Ma(KeyA :> Li(<<Null>>))}

\* The name arguments of send_to and close.
SendNames == {Str(ChName), Str(NoName), Sc(1)}

\* A goroutine of the host program: got = <-chans["ch"].
Receiver == [pc |-> "start", got |-> Nil]

\* root is the value sent; fields holds the name argument, the channels and
\* the receiving goroutines; pc is the position of the evaluation.
InitSend ==
    /\ root \in SendValues
    /\ \E arg \in SendNames, n \in 0..MaxReceivers :
          fields = [arg |-> arg, ch |-> (ChName :> MakeChan), recv |-> [i \in 1..n |-> Receiver]]
    /\ op = "none"
    /\ result = Null
    /\ pc = "ready"

\* The evaluation calls send_to: it returns an error, which is then the
\* value of the whole expression as close takes no error argument, or it
\* reaches the channel operation.
CallSendTo ==
    /\ pc = "ready"
    /\ LET s == send(fields.ch, root, fields.arg) IN
          IF "ret" \in DOMAIN s
          THEN /\ result' = s.ret
               /\ pc' = "done"
               /\ UNCHANGED fields
          ELSE /\ fields' = [fields EXCEPT !.ch[s.c] = ChanSend(@, s.v)]
               /\ pc' = "sending"
               /\ UNCHANGED result
    /\ op' = "send_to"
    /\ UNCHANGED root

\* The channel operation of send_to is over: send_to returns val.
ReturnSendTo ==
    /\ pc = "sending"
    /\ SendReleased(fields.ch[fields.arg.str], ConvertToNative(root))
    /\ result' = root
    /\ pc' = "close"
    /\ op' = "send_to"
    /\ UNCHANGED <<root, fields>>

\* The evaluation calls close with the value send_to returned.
CallClose ==
    /\ pc = "close"
    /\ LET r == close(fields.ch, fields.arg) IN
          /\ fields' = [fields EXCEPT !.ch = r.ch]
          /\ IF "ret" \in DOMAIN r
             THEN result' = r.ret /\ pc' = "done"
             ELSE result' = Err /\ pc' = "panic"
    /\ op' = "close"
    /\ UNCHANGED root

\* A receiving goroutine is started and reaches its receive operation.
StartReceiver ==
    /\ \E i \in DOMAIN fields.recv :
          /\ fields.recv[i].pc = "start"
          /\ fields' = [fields EXCEPT !.recv[i].pc = "recv"]
    /\ UNCHANGED <<root, op, result, pc>>

\* A receiving goroutine receives from the channel.
Receive ==
    /\ \E i \in DOMAIN fields.recv :
          /\ fields.recv[i].pc = "recv"
          /\ CanReceive(fields.ch[ChName])
          /\ fields' = [fields EXCEPT !.recv[i] = [pc |-> "done", got |-> Received(fields.ch[ChName])],
                                      !.ch[ChName] = AfterReceive(@)]
    /\ UNCHANGED <<root, op, result, pc>>

Evaluation == CallSendTo \/ ReturnSendTo \/ CallClose

NextSend == CallSendTo \/ ReturnSendTo \/ CallClose \/ StartReceiver \/ Receive

\* Every goroutine that can run does run.
SpecSend ==
    InitSend /\ [][NextSend]_vars /\ WF_vars(Evaluation) /\ WF_vars(StartReceiver) /\ WF_vars(Receive)

----------------------------------------------------------------------------
(* now and now(): an expression that reads the variable now and calls the  *)
(* function now() in some order, while the clock advances.                 *)

\* The binding of the global variable now before it is first resolved: a
\* function of no arguments that reads the clock.
LazyNow == [lazy |-> "time.Now"]

\* The function now(): the reading of the clock when it is called.
now(args, clock) == IF Len(args) # 0 THEN Err ELSE Time(clock)

\* Resolving the global variable now: a binding that is a function is called
\* and its result takes the place of the function in the bindings.
ResolveName(binding, clock) == IF binding = LazyNow THEN Time(clock) ELSE binding

\* The expressions: lists of reads of now and calls of now().
NowTerms == {"now", "now()"}
NowExprs == UNION {[1..n -> NowTerms] : n \in 1..MaxTerms}

\* root is the expression; fields holds the clock, the clock reading when
\* the evaluation started, the binding of now and the values of the terms
\* evaluated so far.
InitNow ==
    /\ root \in NowExprs
    /\ fields = [clock |-> 0, start |-> Null, binding |-> LazyNow, out |-> <<>>]
    /\ op = "none"
    /\ result = Null
    /\ pc = "ready"

\* The clock advances.
Tick ==
    /\ pc # "done"
    /\ fields.clock < MaxClock
    /\ fields' = [fields EXCEPT !.clock = @ + 1]
    /\ UNCHANGED <<root, op, result, pc>>

\* The evaluation of the program starts.
StartEval ==
    /\ pc = "ready"
    /\ fields' = [fields EXCEPT !.start = Time(fields.clock)]
    /\ pc' = "eval"
    /\ UNCHANGED <<root, op, result>>

\* The next term is the variable now.
EvalNowVariable ==
    /\ pc = "eval"
    /\ Len(fields.out) < Len(root)
    /\ root[Len(fields.out) + 1] = "now"
    /\ LET v == ResolveName(fields.binding, fields.clock) IN
          fields' = [fields EXCEPT !.binding = v, !.out = Append(@, v)]
    /\ op' = "now"
    /\ UNCHANGED <<root, result, pc>>

\* The next term is a call of now().
EvalNowFunction ==
    /\ pc = "eval"
    /\ Len(fields.out) < Len(root)
    /\ root[Len(fields.out) + 1] = "now()"
    /\ fields' = [fields EXCEPT !.out = Append(@, now(<<>>, fields.clock))]
    /\ op' = "now()"
    /\ UNCHANGED <<root, result, pc>>

\* Every term has its value: the evaluation returns the list of them.
EndEval ==
    /\ pc = "eval"
    /\ Len(fields.out) = Len(root)
    /\ result' = Li(fields.out)
    /\ op' = "eval"
    /\ pc' = "done"
    /\ UNCHANGED <<root, fields>>

NextNow == Tick \/ StartEval \/ EvalNowVariable \/ EvalNowFunction \/ EndEval

SpecNow == InitNow /\ [][NextNow]_vars

----------------------------------------------------------------------------
(* The reading of a path that the claims are stated against: the raw       *)
(* string is split at every unescaped dot and each segment has its escaped *)
(* dots restored.                                                          *)

Done(o) == pc = "done" /\ op = o

\* The dot at position i separates two segments: no backslash precedes it.
IsSep(p, i) == p[i] = "." /\ (i = 1 \/ p[i - 1] # "\\")

HasSep(p) == \E i \in 1..Len(p) : IsSep(p, i)

FirstSep(p) == CHOOSE i \in 1..Len(p) : IsSep(p, i) /\ \A j \in 1..(i - 1) : ~IsSep(p, j)

RECURSIVE SplitRaw(_)
SplitRaw(p) ==
    IF ~HasSep(p) THEN <<p>>
    ELSE <<SubSeq(p, 1, FirstSep(p) - 1)>> \o SplitRaw(SubSeq(p, FirstSep(p) + 1, Len(p)))

\* s without the backslashes that stand right before a dot.
Unescape(s) ==
    LET keep[i \in 0..Len(s)] ==
            IF i = 0 THEN <<>>
            ELSE IF s[i] = "\\" /\ i < Len(s) /\ s[i + 1] = "."
                 THEN keep[i - 1]
                 ELSE Append(keep[i - 1], s[i])
    IN  keep[Len(s)]

\* The segments of a path, given its raw segments.
Restored(raw) == [i \in 1..Len(raw) |-> Unescape(raw[i])]

Segments(p) == Restored(SplitRaw(p))

\* No raw segment is empty.
WellFormedRaw(raw) == \A i \in 1..Len(raw) : raw[i] # <<>>

WellFormed(p) == WellFormedRaw(SplitRaw(p))

\* A leading, trailing or doubled unescaped dot.
HasEmptyRaw(raw) == Len(raw) >= 2 /\ \E i \in 1..Len(raw) : raw[i] = <<>>

HasEmptySegment(p) == HasEmptyRaw(SplitRaw(p))

\* The last raw segment holds no escaped dot.
PlainFinalRaw(raw) == Unescape(raw[Len(raw)]) = raw[Len(raw)]

\* The path segs leads to a key somewhere in x.
RECURSIVE PathExists(_, _)
PathExists(x, segs) ==
    IF IsList(x) THEN \E i \in 1..Len(x.l) : PathExists(x.l[i], segs)
    ELSE IF IsMap(x)
         THEN /\ segs[1] \in DOMAIN x.m
              /\ (Len(segs) = 1 \/ PathExists(x.m[segs[1]], Tail(segs)))
         ELSE FALSE

\* x with the key at the end of segs removed from every map the earlier
\* segments lead to.
RECURSIVE WithoutPath(_, _)
WithoutPath(x, segs) ==
    IF IsList(x) THEN Li([i \in 1..Len(x.l) |-> WithoutPath(x.l[i], segs)])
    ELSE IF IsMap(x)
         THEN IF Len(segs) = 1
              THEN Ma([k \in DOMAIN x.m \ {segs[1]} |-> x.m[k]])
              ELSE Ma([k \in DOMAIN x.m |->
                        IF k = segs[1] THEN WithoutPath(x.m[k], Tail(segs)) ELSE x.m[k]])
         ELSE x

\* What a value matched by the final segment contributes to a collation.
Contribution(x) == IF IsList(x) THEN x.l ELSE <<x>>

RECURSIVE ConcatAll(_)
ConcatAll(ss) == IF Len(ss) = 0 THEN <<>> ELSE Head(ss) \o ConcatAll(Tail(ss))

\* The values found at the end of segs in x, in traversal order.
RECURSIVE Gathered(_, _)
Gathered(x, segs) ==
    IF IsList(x) THEN ConcatAll([i \in 1..Len(x.l) |-> Gathered(x.l[i], segs)])
    ELSE IF IsMap(x)
         THEN IF segs[1] \notin DOMAIN x.m THEN <<>>
              ELSE IF Len(segs) = 1 THEN Contribution(x.m[segs[1]])
              ELSE Gathered(x.m[segs[1]], Tail(segs))
         ELSE <<>>

----------------------------------------------------------------------------
(* Claims about drop and collate with one path.                            *)

\* C1: for every root and every well-formed path that leads to no key of
\* root (also when only a proper prefix of it exists), drop returns root
\* unchanged.
DropAbsentPathUnchanged ==
    (Done("drop") /\ IsStr(fields)) =>
        LET raw == SplitRaw(fields.str)
        IN  (WellFormedRaw(raw) /\ ~PathExists(root, Restored(raw))) => result = root

\* C2: for every root and every well-formed path that exists in root, drop
\* returns root without the final key in every map the earlier segments lead
\* to; the path exists nowhere in the result and all else is kept.
DropRemovesExistingPath ==
    (Done("drop") /\ IsStr(fields)) =>
        LET raw == SplitRaw(fields.str)
            segs == Restored(raw)
        IN  (WellFormedRaw(raw) /\ PathExists(root, segs)) =>
                /\ result = WithoutPath(root, segs)
                /\ ~PathExists(result, segs)

\* C3: a final segment has its escaped dots restored before it is compared
\* with the keys: with a one-segment path whose restored form is a key of the
\* map root, drop removes that key and collate returns its value.
FinalSegmentRestored ==
    (pc = "done" /\ IsStr(fields) /\ IsMap(root) /\ WellFormed(fields.str)
        /\ Len(SplitRaw(fields.str)) = 1
        /\ Unescape(fields.str) \in DOMAIN root.m)
    => /\ op = "drop" =>
            /\ IsMap(result)
            /\ DOMAIN result.m = DOMAIN root.m \ {Unescape(fields.str)}
       /\ op = "collate" => result = Li(Contribution(root.m[Unescape(fields.str)]))

\* C4: an unescaped dot always separates segments and an escaped dot in a
\* non-final segment is a literal dot. For a map root and a well-formed path
\* of two or more segments, drop and collate act on the value under the key
\* named by the restored first segment with the rest of the path, and drop
\* keeps every other key (so the key "a.a" under the path a.a); when the final
\* segment holds no escaped dot the result is that of the segment-wise reading.
UnescapedDotSeparates ==
    (pc = "done" /\ IsStr(fields)) =>
       LET raw == SplitRaw(fields.str)
           segs == Restored(raw)
           h == segs[1]
           rest == Str(Join(Tail(raw)))
       IN  (WellFormedRaw(raw) /\ Len(raw) >= 2) =>
           /\ (op = "drop" /\ IsMap(root)) =>
                /\ IsMap(result)
                /\ DOMAIN result.m = DOMAIN root.m
                /\ \A k \in DOMAIN root.m :
                      result.m[k] = IF k = h THEN dropFields(root.m[k], rest)
                                    ELSE root.m[k]
           /\ (op = "collate" /\ IsMap(root)) =>
                result = IF h \in DOMAIN root.m THEN collateFields(root.m[h], rest)
                         ELSE Li(<<>>)
           /\ (op = "drop" /\ PlainFinalRaw(raw)) => result = WithoutPath(root, segs)
           /\ (op = "collate" /\ PlainFinalRaw(raw)) => result = Li(Gathered(root, segs))

\* Witness of C4: the path a\.a.a dropped from a map that holds, under the
\* key "a.a", a map with the key "a".
UnescapedDotSeparatesWitness ==
    /\ Done("drop") /\ fields = Str(Join(<<SegAescA, SegA>>))
    /\ IsMap(root) /\ KeyAdotA \in DOMAIN root.m
    /\ IsMap(root.m[KeyAdotA]) /\ KeyA \in DOMAIN root.m[KeyAdotA].m
    /\ IsMap(result) /\ KeyAdotA \in DOMAIN result.m
    /\ result.m[KeyAdotA] = Ma(<<>>)

\* The traversal of x with the raw segments raw reaches a map while what is
\* left of the path starts with an unescaped dot or is one segment and a
\* trailing dot.
RECURSIVE ReachesBadSep(_, _)
ReachesBadSep(x, raw) ==
    IF IsList(x) THEN \E i \in 1..Len(x.l) : ReachesBadSep(x.l[i], raw)
    ELSE IF IsMap(x)
         THEN \/ raw[1] = <<>>
              \/ Len(raw) = 2 /\ raw[2] = <<>>
              \/ /\ Len(raw) >= 2
                 /\ Unescape(raw[1]) \in DOMAIN x.m
                 /\ ReachesBadSep(x.m[Unescape(raw[1])], Tail(raw))
         ELSE FALSE

\* C5 as stated: for every root and every path with an empty segment, collate
\* and drop return an error value, whatever root holds.
EmptySegmentIsError ==
    (pc = "done" /\ IsStr(fields) /\ HasEmptySegment(fields.str)) => IsErr(result)

\* C5 as amended: for a path with an empty segment, collate and drop return an
\* error value exactly when the traversal reaches a map with the rest of the
\* path starting with an unescaped dot or being one segment and a trailing
\* dot; otherwise drop returns root unchanged and collate an empty list.
EmptySegmentErrorWhenReached ==
    (pc = "done" /\ IsStr(fields)) =>
        LET raw == SplitRaw(fields.str)
        IN  HasEmptyRaw(raw) =>
                /\ IsErr(result) <=> ReachesBadSep(root, raw)
                /\ (~IsErr(result) /\ op = "drop") => result = root
                /\ (~IsErr(result) /\ op = "collate") => result = Li(<<>>)

\* Witness of C5: a non-empty map and a path with an empty segment that drop
\* returns unchanged.
EmptySegmentNotReachedWitness ==
    /\ Done("drop") /\ IsStr(fields) /\ HasEmptySegment(fields.str)
    /\ IsMap(root) /\ DOMAIN root.m # {}
    /\ result = root

\* C6: when the final segment of a path matches a key of a map, collate
\* contributes the elements of the matched value, one level deep, if it is a
\* list, and the value itself otherwise.
CollateContributesFinalMatch ==
    (Done("collate") /\ IsStr(fields)) =>
        LET raw == SplitRaw(fields.str)
        IN  WellFormedRaw(raw) => result = Li(Gathered(root, Restored(raw)))

----------------------------------------------------------------------------
(* Claims about collate with a list of paths.                              *)

\* The lists held by a sequence of list values.
ListsIn(parts) == [i \in 1..Len(parts) |-> parts[i].l]

\* C7: collate with a list of paths is the concatenation, in path order, of
\* collate with each path; collate of a list root with one path is the
\* concatenation, in element order, of the collation of each element. An
\* error of a part is the error of the whole.
CollateConcatenates ==
    /\ (Done("collate") /\ IsList(fields)) =>
          LET parts == [i \in 1..Len(fields.l) |-> collateFields(root, fields.l[i])]
          IN  IF \E i \in 1..Len(parts) : IsErr(parts[i])
              THEN IsErr(result)
              ELSE result = Li(ConcatAll(ListsIn(parts)))
    /\ (Done("collate") /\ IsStr(fields) /\ IsList(root)) =>
          LET parts == [i \in 1..Len(root.l) |-> collateFields(root.l[i], fields)]
          IN  IF \E i \in 1..Len(parts) : IsErr(parts[i])
              THEN IsErr(result)
              ELSE result = Li(ConcatAll(ListsIn(parts)))

\* Witness of C7: two paths that collate to different non-empty lists.
CollateConcatenatesWitness ==
    /\ Done("collate") /\ IsList(fields) /\ Len(fields.l) = 2
    /\ LET p1 == collateFields(root, fields.l[1])
           p2 == collateFields(root, fields.l[2])
       IN  /\ IsList(p1) /\ IsList(p2)
           /\ Len(p1.l) > 0 /\ Len(p2.l) > 0
           /\ p1 # p2
           /\ result = Li(p1.l \o p2.l)

----------------------------------------------------------------------------
(* Claims about drop_empty and flatten.                                    *)

\* The values held in x at any depth below x.
RECURSIVE Descendants(_)
Descendants(x) ==
    IF IsContainer(x)
    THEN Elems(x) \cup UNION {Descendants(e) : e \in Elems(x)}
    ELSE {}

\* The scalars held in x, in list order and in the order of KeyOrder for the
\* keys of a map, each with the chain of map keys that leads to it.
KeyOrder == PathKeys

RECURSIVE Leaves(_, _)
Leaves(x, chain) ==
    IF IsList(x) THEN ConcatAll([i \in 1..Len(x.l) |-> Leaves(x.l[i], chain)])
    ELSE IF IsMap(x)
         THEN ConcatAll([i \in 1..Len(KeyOrder) |->
                  IF KeyOrder[i] \in DOMAIN x.m
                  THEN Leaves(x.m[KeyOrder[i]], Append(chain, KeyOrder[i]))
                  ELSE <<>>])
         ELSE <<[keys |-> chain, val |-> x]>>

\* C8: the result of drop_empty holds no zero-length list or map at any depth
\* below the root, also where a container became empty by the removal of its
\* own empty descendants.
DropEmptyLeavesNoEmpty ==
    Done("drop_empty") =>
        \A d \in Descendants(result) : IsContainer(d) => Size(d) # 0

\* Witness of C8: an element of root that is not empty but holds no scalar,
\* and is gone from the result.
DropEmptyLeavesNoEmptyWitness ==
    /\ Done("drop_empty")
    /\ \E d \in Elems(root) :
          /\ IsContainer(d) /\ Size(d) # 0
          /\ Leaves(d, <<>>) = <<>>
          /\ d \notin Elems(result)
    /\ Size(result) < Size(root)
    /\ Size(result) > 0

\* C9: drop_empty never removes or changes a scalar: every scalar of the
\* input, the empty string and zero too, is in the result under the same
\* chain of map keys and in the same relative order, and a value of a map
\* that holds a scalar at any depth keeps its key.
DropEmptyKeepsScalars ==
    Done("drop_empty") =>
        /\ Leaves(result, <<>>) = Leaves(root, <<>>)
        /\ IsMap(root) =>
              \A k \in DOMAIN root.m :
                  Leaves(root.m[k], <<>>) # <<>> => k \in DOMAIN result.m

\* Witness of C9: drop_empty removed something from a root that holds both
\* zero and the empty string.
DropEmptyKeepsScalarsWitness ==
    /\ Done("drop_empty")
    /\ result # root
    /\ \E i, j \in 1..Len(Leaves(root, <<>>)) :
          /\ Leaves(root, <<>>)[i].val = Sc(0)
          /\ Leaves(root, <<>>)[j].val = Str(<<>>)

\* C10: for every list, no element of the result of flatten is itself a list.
FlattenYieldsNoList ==
    Done("flatten") =>
        /\ IsList(result)
        /\ \A i \in 1..Len(result.l) : ~IsList(result.l[i])

\* The contribution of a list to a flattening, by the kind of its immediate
\* children.
AllLists(l) == \A i \in 1..Len(l) : IsList(l[i])

RECURSIVE Flattened(_)
Flattened(x) ==
    IF AllLists(x.l)
    THEN ConcatAll([i \in 1..Len(x.l) |-> Flattened(x.l[i])])
    ELSE x.l

\* The nested list [[1],[2,3],[[[4]],[5,6]]] of the documentation.
FlattenExample ==
    Li(<<Li(<<Sc(1)>>), Li(<<Sc(2), Sc(3)>>),
         Li(<<Li(<<Li(<<Sc(4)>>)>>), Li(<<Sc(5), Sc(6)>>)>>)>>)

----------------------------------------------------------------------------
(* Claims about with, with_update and with_replace.                        *)

BothMaps == IsMap(root) /\ IsMap(fields)

\* A key of both maps with two values, a key of dst only and a key of src only.
MixedKeys ==
    /\ BothMaps
    /\ \E k \in DOMAIN root.m \cap DOMAIN fields.m : root.m[k] # fields.m[k]
    /\ DOMAIN root.m \ DOMAIN fields.m # {}
    /\ DOMAIN fields.m \ DOMAIN root.m # {}

\* C12: with(dst, src) returns a map whose keys are the keys of dst and the
\* keys of src, with the value of src at each key of src and the value of dst
\* at every other key.
WithIsRightBiasedUnion ==
    (Done("with") /\ BothMaps) =>
        /\ IsMap(result)
        /\ DOMAIN result.m = DOMAIN root.m \cup DOMAIN fields.m
        /\ \A k \in DOMAIN result.m :
              result.m[k] = IF k \in DOMAIN fields.m THEN fields.m[k] ELSE root.m[k]

\* Witness of C12: with has run on maps that share a key with two values and
\* have each a key of their own.
WithIsRightBiasedUnionWitness == Done("with") /\ MixedKeys

\* C13: with_update(dst, src) returns a map whose keys are the keys of dst and
\* the keys of src, with the value of dst at each key of dst and the value of
\* src at every other key.
WithUpdateIsLeftBiasedUnion ==
    (Done("with_update") /\ BothMaps) =>
        /\ IsMap(result)
        /\ DOMAIN result.m = DOMAIN root.m \cup DOMAIN fields.m
        /\ \A k \in DOMAIN result.m :
              result.m[k] = IF k \in DOMAIN root.m THEN root.m[k] ELSE fields.m[k]

\* Witness of C13: with_update has run on such maps.
WithUpdateIsLeftBiasedUnionWitness == Done("with_update") /\ MixedKeys

\* C14: with_replace(dst, src) returns a map whose keys are exactly the keys
\* of dst, with the value of src at each key of both maps and the value of dst
\* at every other key; a key of src only is not in the result.
WithReplaceKeepsKeySet ==
    (Done("with_replace") /\ BothMaps) =>
        /\ IsMap(result)
        /\ DOMAIN result.m = DOMAIN root.m
        /\ \A k \in DOMAIN result.m :
              result.m[k] = IF k \in DOMAIN fields.m THEN fields.m[k] ELSE root.m[k]
        /\ \A k \in DOMAIN fields.m \ DOMAIN root.m : k \notin DOMAIN result.m

\* Witness of C14: with_replace has run on such maps.
WithReplaceKeepsKeySetWitness == Done("with_replace") /\ MixedKeys

\* The cell of the map that the call op returns for the arguments dst and src.
ReturnedCell(o, dst, src) ==
    IF o = "with" THEN withAll(dst, src).cell
    ELSE IF o = "with_update" THEN withUpdate(dst, src).cell
    ELSE withReplace(dst, src).cell

\* C15: with, with_update and with_replace do not change their arguments:
\* after the call dst and src hold the entries they held before, and the map
\* returned is a map of its own, neither the map of dst nor the map of src.
WithLeavesArguments ==
    [][(pc = "ready" /\ pc' = "done"
           /\ op' \in {"with", "with_update", "with_replace"}) =>
         /\ root' = root
         /\ fields' = fields
         /\ (IsMap(root) /\ IsMap(fields)) => ReturnedCell(op', root, fields) = "new"]_vars

\* Witness of C15: a call on maps with keys of both kinds has returned a map
\* that differs from both arguments.
WithLeavesArgumentsWitness ==
    /\ pc = "done"
    /\ op \in {"with", "with_update", "with_replace"}
    /\ MixedKeys
    /\ result # root
    /\ result # fields

DisjointKeys == BothMaps /\ DOMAIN root.m \cap DOMAIN fields.m = {}

\* C16: for maps dst and src that share no key, with(dst, src) equals
\* with_update(dst, src) and with_replace(dst, src) equals dst.
WithDisjointKeys ==
    DisjointKeys =>
        /\ Done("with") => result = withUpdate(root, fields).val
        /\ Done("with_update") => result = withAll(root, fields).val
        /\ Done("with_replace") => result = root

\* Witness of C16: with_replace has run on two maps, neither of them empty,
\* that share no key.
WithDisjointKeysWitness ==
    /\ Done("with_replace")
    /\ DisjointKeys
    /\ DOMAIN root.m # {}
    /\ DOMAIN fields.m # {}

----------------------------------------------------------------------------
(* Claims about the as macro.                                              *)

\* The expression of [target].map(x, body)[0]: the map macro folds over its
\* receiver, adding [body] to an empty list at each element.
MapThenFirst(target, x, body) ==
    GlobalCall(OperatorsIndex,
        <<Fold(x, NewList(<<target>>), AccumulatorName, NewList(<<>>), LiteralBool(TRUE),
               GlobalCall(OperatorsAdd, <<Ident(AccumulatorName), NewList(<<body>>)>>),
               Ident(AccumulatorName)),
          LiteralInt(0)>>)

\* C17: target.as(x, body) yields the value of body evaluated once with x
\* bound to target: the expansion is element 0 of a fold over the one-element
\* list [target], the fold makes one iteration and, when body has a value,
\* ends with the accumulator [value of body]; the result is that of
\* [target].map(x, body)[0].
AsEvaluatesBodyOnce ==
    (Done("as") /\ IsIdentExpr(fields.args[1])) =>
        LET x == fields.args[1].ident
            body == fields.args[2]
            target == Literal(root)
            e == makeAs(target, fields.args).expr
            fold == e.call.args[1]
            b == Eval(body, (x :> root))
        IN  /\ result.val = b.val
            /\ result.steps = 1 + b.steps
            /\ e.call.fn = OperatorsIndex
            /\ e.call.args[2] = LiteralInt(0)
            /\ fold.fold.iterRange = NewList(<<target>>)
            /\ ~IsErr(b.val) => Eval(fold, <<>>).val = Li(<<b.val>>)
            /\ result.val = Eval(MapThenFirst(target, x, body), <<>>).val

\* Witness of C17: a map as target and the body [v, v] with the label v; the
\* result is the list of the map twice.
AsEvaluatesBodyOnceWitness ==
    /\ Done("as")
    /\ IsMap(root)
    /\ root # Ma(<<>>)
    /\ fields.args = <<Ident("v"), NewList(<<Ident("v"), Ident("v")>>)>>
    /\ result.val = Li(<<root, root>>)

----------------------------------------------------------------------------
(* Claims about rate_limit.                                                *)

NamedCall == Len(fields.args) = 2
GeneralCall == Len(fields.args) = 5
Dialect == IF GeneralCall THEN "general" ELSE fields.args[1].str

\* The headers are a map from strings to lists of strings.
HeadersTyped ==
    /\ IsMap(root)
    /\ \A k \in DOMAIN root.m :
          IsList(root.m[k]) /\ \A i \in 1..Len(root.m[k].l) : IsStr(root.m[k].l[i])

\* rate_limit has been called in one of the three dialects.
LimitDone ==
    /\ Done("rate_limit")
    /\ HeadersTyped
    /\ Dialect \in {"okta", "draft", "general"}

\* The value of the header of a dialect that ends in word: the first value
\* under X-Rate-Limit-word for okta, Rate-Limit-word for draft and
\* prefix-word for the general form, looked up under the canonical form of
\* the key unless the general form is told that the keys are not canonical;
\* the empty string when there is none.
HeaderValue(word) ==
    LET prefix == IF Dialect = "okta" THEN <<"X", "Rate", "Limit">>
                  ELSE IF Dialect = "draft" THEN <<"Rate", "Limit">>
                  ELSE fields.args[1].str
        key == Append(prefix, word)
        k == IF GeneralCall /\ ~fields.args[2].bool THEN key
             ELSE CanonicalMIMEHeaderKey(key)
    IN  IF k \in DOMAIN root.m /\ Len(root.m[k].l) > 0 THEN root.m[k].l[1].str ELSE <<>>

SomeHeaderMissing == \E w \in {"Limit", "Remaining", "Reset"} : HeaderValue(w) = <<>>

CompleteKeys == {"headers", "rate", "next", "burst", "reset"}

\* C18: in the three dialects, when one of the Limit, Remaining and Reset
\* headers is absent or is the empty string the result is a map with the one
\* key headers, whatever the other headers hold.
MissingHeaderGivesHeadersOnly ==
    (LimitDone /\ SomeHeaderMissing) =>
        /\ IsMap(result)
        /\ DOMAIN result.m = {"headers"}

\* Witness of C18: the general form called on headers with no Reset value and
\* a Limit that is not a number.
MissingHeaderGivesHeadersOnlyWitness ==
    /\ LimitDone
    /\ GeneralCall
    /\ HeaderValue("Reset") = <<>>
    /\ HeaderValue("Limit") = <<"x">>
    /\ DOMAIN result.m = {"headers"}

\* The sub-policies of the draft Limit header, and its first field.
SubPolicies ==
    LET fs == Split(HeaderValue("Limit"), ",")
    IN  [i \in 1..(Len(fs) - 1) |-> TrimSpace(fs[i + 1])]

PrimaryQuota == Atoi(Split(HeaderValue("Limit"), ",")[1])

\* The sub-policy i has a quota above the primary quota, which ends the scan.
Exceeds(i) ==
    policyQuota(SubPolicies[i]).err = <<>>
        /\ policyQuota(SubPolicies[i]).val > PrimaryQuota.val

\* The sub-policy i is scanned: no sub-policy before it ends the scan.
Scanned(i) == ~Exceeds(i) /\ \A j \in 1..(i - 1) : ~Exceeds(j)

\* The sub-policy i is malformed where the scan reads it.
Malformed(i) ==
    \/ policyQuota(SubPolicies[i]).err # <<>>
    \/ ~Exceeds(i) /\ policyDetails(SubPolicies[i], 0).err # <<>>

\* The three header values parse, as each dialect reads them.
LimitParses ==
    IF Dialect = "draft"
    THEN /\ PrimaryQuota.ok
         /\ \A i \in 1..Len(SubPolicies) : Malformed(i) => \E j \in 1..(i - 1) : Exceeds(j)
    ELSE ParseFloat(HeaderValue("Limit")).ok

RemainingParses == ParseFloat(HeaderValue("Remaining")).ok

ResetParses ==
    LET reset == HeaderValue("Reset")
    IN  IF Dialect = "okta" THEN ParseInt(reset).ok
        ELSE \/ (IF Dialect = "draft" THEN ParseFloat(reset).ok ELSE ParseInt(reset).ok)
             \/ ParseHTTPTime(reset).ok
             \/ ParseRFC1123(reset).ok

\* C19: in the three dialects, when the three headers are not empty the
\* result is a map of one of two shapes: headers and error when the Limit,
\* Remaining or Reset value cannot be parsed, and headers, rate, next, burst
\* and reset when all of them parse; error never comes with rate, next, burst
\* or reset, and the call returns a map, not an error of the evaluation.
ErrorOrCompleteResult ==
    (LimitDone /\ ~SomeHeaderMissing) =>
        /\ IsMap(result)
        /\ IF LimitParses /\ RemainingParses /\ ResetParses
           THEN DOMAIN result.m = CompleteKeys
           ELSE DOMAIN result.m = {"headers", "error"}

\* Witness of C19: the draft dialect with a Limit whose sub-policy has a burst
\* that is not a number, a Remaining and a Reset that parse: the result holds
\* headers and error.
ErrorOrCompleteResultWitness ==
    /\ LimitDone
    /\ Dialect = "draft"
    /\ HeaderValue("Limit") = <<"2", ",", "1", ";", "burst=", "x">>
    /\ RemainingParses
    /\ ResetParses
    /\ DOMAIN result.m = {"headers", "error"}

\* C20: in a complete result burst is at least 1: the general form gives the
\* larger of its burst argument and 1, okta gives 1, and draft gives 1 or the
\* burst= value of a scanned sub-policy, never zero or less.
BurstAtLeastOne ==
    (LimitDone /\ IsMap(result) /\ "burst" \in DOMAIN result.m) =>
        /\ result.m["burst"] >= 1
        /\ Dialect = "general" =>
              result.m["burst"] = IF fields.args[5].int > 1 THEN fields.args[5].int ELSE 1
        /\ Dialect = "okta" => result.m["burst"] = 1
        /\ Dialect = "draft" =>
              \/ result.m["burst"] = 1
              \/ \E i \in 1..Len(SubPolicies) :
                    /\ Scanned(i)
                    /\ policyDetails(SubPolicies[i], 0).burst = result.m["burst"]

\* Witness of C20: the draft dialect with a scanned sub-policy burst=0 and a
\* complete result, whose burst is 1.
BurstAtLeastOneWitness ==
    /\ LimitDone
    /\ Dialect = "draft"
    /\ HeaderValue("Limit") = <<"2", ",", "1", ";", "burst=", "0">>
    /\ DOMAIN result.m = CompleteKeys
    /\ result.m["burst"] = 1

----------------------------------------------------------------------------
(* Claims about the rate and the sub-policies of the draft dialect.        *)

\* Equality of two float64 values as numbers.
FloatEq(x, y) ==
    IF IsFinite(x) /\ IsFinite(y) THEN x.num * y.den = y.num * x.den
    ELSE x = y

\* The draft dialect has returned a complete result.
DraftComplete ==
    /\ LimitDone
    /\ Dialect = "draft"
    /\ IsMap(result)
    /\ DOMAIN result.m = CompleteKeys

DefaultWindow == Float64(fields.args[2].dur)

\* The parts of the sub-policy i, and whether one of them starts with name.
PartsOf(i) ==
    LET ps == Split(SubPolicies[i], ";") IN [j \in 1..Len(ps) |-> TrimSpace(ps[j])]

HasPart(i, name) == \E j \in 1..Len(PartsOf(i)) : HasPrefix(PartsOf(i)[j], name)

\* The value of the last part of the sub-policy i that starts with name.
PartValue(i, name) ==
    LET ps == PartsOf(i)
        last == CHOOSE j \in 1..Len(ps) :
                    /\ HasPrefix(ps[j], name)
                    /\ \A k \in (j + 1)..Len(ps) : ~HasPrefix(ps[k], name)
    IN  Atoi(TrimPrefix(ps[last], name)).val

\* The last scanned sub-policy that has a part name, 0 when there is none.
LastScannedWith(name) ==
    LET S == {i \in 1..Len(SubPolicies) : Scanned(i) /\ HasPart(i, name)}
    IN  IF S = {} THEN 0 ELSE CHOOSE i \in S : \A j \in S : j <= i

\* The window of the last scanned sub-policy that gives one, else the
\* default window.
EffectiveWindow ==
    IF LastScannedWith("window=") = 0 THEN DefaultWindow
    ELSE Float64(PartValue(LastScannedWith("window="), "window="))

\* The seconds until reset of the draft dialect: the Reset value when it is
\* a number, else the time from now to the date.
DraftSecondsUntilReset ==
    LET reset == HeaderValue("Reset")
    IN  IF ParseFloat(reset).ok THEN ParseFloat(reset).val
        ELSE IF ParseHTTPTime(reset).ok
             THEN UntilSeconds(ParseHTTPTime(reset).val, fields.now)
             ELSE UntilSeconds(ParseRFC1123(reset).val, fields.now)

\* C21 as stated: in the draft dialect the rate of a complete result is
\* Remaining / (seconds until reset * effective window in seconds).
DraftRateDividesByWindow ==
    DraftComplete =>
        FloatEq(result.m["rate"],
                FloatDiv(ParseFloat(HeaderValue("Remaining")).val,
                         FloatMul(DraftSecondsUntilReset, EffectiveWindow)))

\* C21: in the draft dialect the rate of a complete result is Remaining /
\* seconds until reset; neither the default window nor the window of a
\* sub-policy enters it.
DraftRateIsRemainingPerSecond ==
    DraftComplete =>
        FloatEq(result.m["rate"],
                FloatDiv(ParseFloat(HeaderValue("Remaining")).val, DraftSecondsUntilReset))

\* Witness of C21: Remaining 1, Reset 2 and a default window of one minute
\* give the rate 1/2.
DraftRateIsRemainingPerSecondWitness ==
    /\ DraftComplete
    /\ HeaderValue("Remaining") = <<"1">>
    /\ HeaderValue("Reset") = <<"2">>
    /\ fields.args[2] = Duration(60)
    /\ FloatEq(result.m["rate"], Float(1, 2))

\* The call of the documentation: the draft dialect with the leaky bucket
\* Limit, Remaining 100, Reset 36000 and a window of one minute.
LeakyBucketCall ==
    /\ LimitDone
    /\ Dialect = "draft"
    /\ HeaderValue("Limit") = LeakyBucketLimit
    /\ HeaderValue("Remaining") = <<"1", "0", "0">>
    /\ HeaderValue("Reset") = <<"3", "6", "0", "0", "0">>
    /\ fields.args[2] = Duration(60)

----------------------------------------------------------------------------
(* send_to and close.                                                      *)

\* The host program has the named channel and the value has a native form.
Sendable == fields.arg = Str(ChName) /\ ConvertToNative(root) # Nil

\* The receivers that have taken the native form of the value sent.
Takers ==
    {i \in DOMAIN fields.recv :
        fields.recv[i].pc = "done" /\ fields.recv[i].got = ConvertToNative(root)}

\* The order of the steps of v.send_to(name).close(name).
SendOrder ==
    Sendable =>
        /\ Cardinality(Takers) <= 1
        /\ \A i \in DOMAIN fields.recv :
              (fields.recv[i].pc = "done" /\ i \notin Takers) =>
                  (fields.recv[i].got = Nil /\ fields.ch[ChName].closed)
        /\ pc = "close" => (Cardinality(Takers) = 1 /\ result = root /\ ~fields.ch[ChName].closed)
        /\ fields.ch[ChName].closed => (Cardinality(Takers) = 1 /\ pc = "done" /\ op = "close")
        /\ pc = "done" => (result = Bool(TRUE) /\ fields.ch[ChName].closed)
        /\ pc # "panic"

\* C23: with a goroutine receiving from the named unbuffered channel,
\* v.send_to(name).close(name) hands the native form of v to exactly one
\* receiver, send_to returns v only once the receiver has taken it, the
\* channel is closed only after that, and the evaluation ends with true.
SendDeliversBeforeClose ==
    /\ []SendOrder
    /\ (Sendable /\ fields.recv # <<>>) ~> (pc = "done" /\ result = Bool(TRUE))

\* Witness of C23: 42 has been received as an int64 by one of two
\* receivers, the channel is closed and the other receiver has got nil.
SendDeliversBeforeCloseWitness ==
    /\ root = Sc(42)
    /\ pc = "done"
    /\ result = Bool(TRUE)
    /\ Len(fields.recv) = 2
    /\ fields.recv[1].got = [int64 |-> 42]
    /\ fields.recv[2].pc = "done"
    /\ fields.recv[2].got = Nil

----------------------------------------------------------------------------
(* now and now().                                                          *)

\* The values that the reads of the variable now, and the calls of now(),
\* gave in a finished evaluation.
NowReads == {result.l[i] : i \in {j \in DOMAIN result.l : root[j] = "now"}}
NowCalls == {result.l[i] : i \in {j \in DOMAIN result.l : root[j] = "now()"}}

\* C24 as stated: in one evaluation every read of the variable now gives
\* the time the evaluation started, and that time is not later than the
\* result of any call of now() in the expression, whatever the order of the
\* reads and the calls.
NowIsEvaluationStart ==
    Done("eval") =>
        /\ \A t \in NowReads : t = fields.start
        /\ \A t \in NowReads, u \in NowCalls : t.unix <= u.unix

\* What the code does keep: every read of now in one evaluation gives the
\* same timestamp, the reading of the clock at the first read.
NowReadsAgree == Done("eval") => Cardinality(NowReads) <= 1

----------------------------------------------------------------------------
(* Claims about the Reset header of the general form.                      *)

\* The general form has been called on headers whose Limit and Remaining
\* parse and whose Reset is not empty.
GeneralResetCall ==
    /\ LimitDone
    /\ GeneralCall
    /\ ~SomeHeaderMissing
    /\ ParseFloat(HeaderValue("Limit")).ok
    /\ ParseFloat(HeaderValue("Remaining")).ok

\* The result holds the reset time t, and its rate is Remaining divided by
\* secs seconds until reset times the window in seconds.
ResetsAt(t, secs) ==
    /\ DOMAIN result.m = CompleteKeys
    /\ result.m["reset"] = Time(t)
    /\ FloatEq(result.m["rate"],
               FloatDiv(ParseFloat(HeaderValue("Remaining")).val,
                        FloatMul(Float64(secs), Float64(fields.args[4].dur))))

\* C25: in the general form a Reset that is the integer d gives, when
\* isDelta holds, the reset time now + d and d seconds until reset, and
\* otherwise the reset time d and d - now seconds until reset; a Reset that
\* is no integer is read as an HTTP date, then as an RFC1123 date, and when
\* it is none of these the result holds headers and error only.
ResetIsDeltaOrTimestamp ==
    GeneralResetCall =>
        LET reset == HeaderValue("Reset")
            d == ParseInt(reset)
            isDelta == fields.args[3].bool
        IN  IF d.ok
            THEN IF isDelta THEN ResetsAt(fields.now + d.val, d.val)
                 ELSE ResetsAt(d.val, d.val - fields.now)
            ELSE IF ParseHTTPTime(reset).ok
            THEN ResetsAt(ParseHTTPTime(reset).val, ParseHTTPTime(reset).val - fields.now)
            ELSE IF ParseRFC1123(reset).ok
            THEN ResetsAt(ParseRFC1123(reset).val, ParseRFC1123(reset).val - fields.now)
            ELSE DOMAIN result.m = {"headers", "error"}

\* Witness of C25: the Reset 2 read as a delta at the time 1, which gives
\* the reset time 3.
ResetIsDeltaOrTimestampWitness ==
    /\ GeneralResetCall
    /\ HeaderValue("Reset") = <<"2">>
    /\ fields.args[3].bool
    /\ fields.now = 1
    /\ result.m["reset"] = Time(3)

----------------------------------------------------------------------------
(* Claims about the scan of the sub-policies of the draft dialect.         *)

\* The burst of the last scanned sub-policy that gives one, else 1.
EffectiveBurst ==
    IF LastScannedWith("burst=") = 0 THEN 1
    ELSE PartValue(LastScannedWith("burst="), "burst=")

\* The last scanned sub-policy whose part name has a value of at least
\* least, 0 when there is none.
LastScannedAtLeast(name, least) ==
    LET S == {i \in 1..Len(SubPolicies) :
                 Scanned(i) /\ HasPart(i, name) /\ PartValue(i, name) >= least}
    IN  IF S = {} THEN 0 ELSE CHOOSE i \in S : \A j \in S : j <= i

\* C26 as stated: in a complete result of the draft dialect next is the
\* primary quota divided by the window= of the last scanned sub-policy that
\* has one, else by the default window, and burst is the burst= of the last
\* scanned sub-policy that has one, else 1.
DraftScanLastFieldWins ==
    DraftComplete =>
        /\ FloatEq(result.m["next"], FloatDiv(Float64(PrimaryQuota.val), EffectiveWindow))
        /\ result.m["burst"] = EffectiveBurst

\* C26: the sub-policies are scanned in header order up to the first one
\* whose quota is above the primary quota; next is the primary quota divided
\* by the window= of the last scanned sub-policy whose window= is zero or
\* more, else by the default window, and burst is the burst= of the last
\* scanned sub-policy whose burst= is one or more, else 1.
DraftScanLastUsableFieldWins ==
    DraftComplete =>
        LET w == LastScannedAtLeast("window=", 0)
            b == LastScannedAtLeast("burst=", 1)
        IN  /\ FloatEq(result.m["next"],
                       FloatDiv(Float64(PrimaryQuota.val),
                                IF w = 0 THEN DefaultWindow
                                ELSE Float64(PartValue(w, "window="))))
            /\ result.m["burst"] = IF b = 0 THEN 1 ELSE PartValue(b, "burst=")

\* Witness of C26: a quota of 2, a scanned sub-policy 1;burst=2, a
\* sub-policy 3;burst=3;window=3 that ends the scan and a sub-policy
\* 1;window=1 after it: burst is 2 and next is 2 over the default window.
DraftScanLastUsableFieldWinsWitness ==
    /\ DraftComplete
    /\ Len(SubPolicies) = 3
    /\ Scanned(1)
    /\ Exceeds(2)
    /\ HasPart(3, "window=")
    /\ result.m["burst"] = 2
    /\ FloatEq(result.m["next"], FloatDiv(Float64(2), DefaultWindow))

----------------------------------------------------------------------------
(* Claims about malformed sub-policies of the draft dialect.               *)

\* The draft dialect has been called on headers whose Remaining and Reset
\* parse and whose Limit starts with a quota.
DraftScanCall ==
    /\ LimitDone
    /\ Dialect = "draft"
    /\ ~SomeHeaderMissing
    /\ RemainingParses
    /\ ResetParses
    /\ PrimaryQuota.ok

\* The sub-policy that ends the scan, 0 when there is none.
FirstExceeding ==
    LET S == {i \in 1..Len(SubPolicies) : Exceeds(i) /\ \A j \in 1..(i - 1) : ~Exceeds(j)}
    IN  IF S = {} THEN 0 ELSE CHOOSE i \in S : TRUE

\* The Limit header cut after the quota of the sub-policy that ends the
\* scan: its window= and burst= parts and every field after it are left out.
LimitCut ==
    LET fs == Split(HeaderValue("Limit"), ",")
        e == FirstExceeding
        p == fs[e + 1]
        RECURSIVE Joined(_)
        Joined(i) == IF i = 1 THEN fs[1] ELSE Joined(i - 1) \o <<",">> \o fs[i]
    IN  IF e = 0 THEN HeaderValue("Limit")
        ELSE Joined(e) \o <<",">> \o SubSeq(p, 1, IndexOf(p, ";"))

\* C30: in the draft dialect the result holds headers and error exactly
\* when a sub-policy that the scan reaches is malformed; the window= and
\* burst= parts of the first sub-policy whose quota is above the primary
\* quota, and the fields after it, are not read: the window, burst, next and
\* rate of the result are those of the header cut after that quota.
MalformedOnlyWhenReached ==
    DraftScanCall =>
        LET reached == {i \in 1..Len(SubPolicies) : \A j \in 1..(i - 1) : ~Exceeds(j)}
            cut == DraftRateLimit((DraftKey("Limit") :> <<LimitCut>>) @@ mapStrings(root).h,
                                  fields.args[2].dur, fields.now)
        IN  /\ "error" \in DOMAIN result.m <=> \E i \in reached : Malformed(i)
            /\ \A k \in {"error", "rate", "next", "burst", "reset"} :
                  /\ k \in DOMAIN result.m <=> k \in DOMAIN cut
                  /\ k \in DOMAIN result.m => result.m[k] = cut[k]

\* Witness of C30: a quota of 2 followed by the sub-policy 3;burst=x, whose
\* quota ends the scan and whose burst is not a number: the result is
\* complete, with burst 1.
MalformedOnlyWhenReachedWitness ==
    /\ DraftScanCall
    /\ HeaderValue("Limit") = <<"2", ",", "3", ";", "burst=", "x">>
    /\ DOMAIN result.m = CompleteKeys
    /\ result.m["burst"] = 1

----------------------------------------------------------------------------
(* Claims about drop with a list of paths and with a malformed path.       *)

\* drop with the single path p.
DropOne(obj, p) == dropFields(obj, p)

\* The left fold of drop with a single path over the paths l[i..], which
\* ends at the first error.
RECURSIVE DropFold(_, _, _)
DropFold(obj, l, i) ==
    IF i > Len(l) \/ IsErr(obj) THEN obj
    ELSE DropFold(DropOne(obj, l[i]), l, i + 1)

\* C27: drop with a list of paths is the left fold of drop with a single
\* path over the paths in the order of the list, each path being applied to
\* the result of the one before; an error of one step is the result.
DropListIsLeftFold ==
    (Done("drop") /\ IsList(fields)) => result = DropFold(root, fields.l, 1)

\* Witness of C27: two paths that each remove a key, the second one from
\* what the first one left, none of them alone giving the result.
DropListIsLeftFoldWitness ==
    /\ Done("drop")
    /\ IsList(fields)
    /\ Len(fields.l) = 2
    /\ ~IsErr(result)
    /\ DropOne(root, fields.l[1]) # root
    /\ result # DropOne(root, fields.l[1])
    /\ result # DropOne(root, fields.l[2])

\* The value is an error or holds one at some depth.
RECURSIVE HoldsError(_)
HoldsError(v) ==
    \/ IsErr(v)
    \/ IsContainer(v) /\ \E e \in Elems(v) : HoldsError(e)

\* C28: for a path with an empty segment drop returns an error value or
\* root unchanged: never a structure that lacks some of the keys of root,
\* and never a list or a map that holds an error value.
DropMalformedPathAllOrNothing ==
    (Done("drop") /\ IsStr(fields) /\ \E i \in DOMAIN SplitRaw(fields.str) : SplitRaw(fields.str)[i] = <<>>) =>
        \/ IsErr(result)
        \/ result = root /\ ~HoldsError(result)

\* Witness of C28: a list whose first element is a scalar and whose second
\* element is a map, and a path with a trailing dot: the result is an error,
\* not a list with an error in the place of the map.
DropMalformedPathAllOrNothingWitness ==
    /\ Done("drop")
    /\ IsStr(fields)
    /\ fields.str = Join(<<SegA, SegEmpty>>)
    /\ IsList(root)
    /\ Len(root.l) = 2
    /\ ~IsContainer(root.l[1])
    /\ IsMap(root.l[2])
    /\ IsErr(result)

----------------------------------------------------------------------------
(* Claims about flatten applied twice.                                     *)

\* C29: flatten is idempotent: for every list x, flatten of flatten(x) is
\* flatten(x).
FlattenIdempotent ==
    Done("flatten") => flatten(result) = result

\* Witness of C29: a list of lists of lists, which flatten changes and whose
\* result flatten leaves as it is.
FlattenIdempotentWitness ==
    /\ Done("flatten")
    /\ Len(root.l) > 0
    /\ \A i \in 1..Len(root.l) :
          /\ IsList(root.l[i])
          /\ Len(root.l[i].l) > 0
          /\ \A j \in 1..Len(root.l[i].l) : IsList(root.l[i].l[j])
    /\ result # root
    /\ Len(result.l) > 0
    /\ flatten(result) = result

====
